---- MODULE Spec2Model ----
(***************************************************************************)
(* The IJe bytecode compiler (src/runtime/compiler.ts) and stack VM        *)
(* (src/runtime/vm.ts) over the shared value model and chunk format        *)
(* (src/runtime/bytecode.ts).  The compiler is a family of recursive       *)
(* operators from an AST to a table of compiled functions; the VM is a     *)
(* state machine with one action per opcode handler.                       *)
(***************************************************************************)
EXTENDS Integers, Sequences, FiniteSets, TLC

(***************************************************************************)
(* Opcodes (bytecode.ts OpCode)                                            *)
(***************************************************************************)
OP_CONSTANT == 0
OP_POP == 1
OP_DUP == 2
OP_TRUE == 4
OP_FALSE == 5
OP_NULL == 6
OP_ADD == 7
OP_SUBTRACT == 8
OP_MULTIPLY == 9
OP_DIVIDE == 10
OP_MODULO == 11
OP_POWER == 12
OP_NEGATE == 13
OP_EQUAL == 14
OP_NOT_EQUAL == 15
OP_GREATER == 16
OP_GREATER_EQUAL == 17
OP_LESS == 18
OP_LESS_EQUAL == 19
OP_NOT == 20
OP_BIT_AND == 23
OP_BIT_OR == 24
OP_BIT_XOR == 25
OP_BIT_NOT == 26
OP_LSHIFT == 27
OP_RSHIFT == 28
OP_DEFINE_GLOBAL == 29
OP_GET_GLOBAL == 30
OP_SET_GLOBAL == 31
OP_GET_LOCAL == 32
OP_SET_LOCAL == 33
OP_GET_UPVALUE == 34
OP_SET_UPVALUE == 35
OP_CLOSE_UPVALUE == 36
OP_JUMP == 37
OP_JUMP_IF_FALSE == 38
OP_JUMP_IF_TRUE == 39
OP_LOOP == 40
OP_CALL == 41
OP_RETURN == 42
OP_CLOSURE == 43
OP_CLASS == 44
OP_GET_PROPERTY == 45
OP_SET_PROPERTY == 46
OP_METHOD == 47
OP_INHERIT == 49
OP_ARRAY == 51
OP_OBJECT == 52
OP_GET_INDEX == 53
OP_SET_INDEX == 54
OP_PRINT == 55
OP_LOAD_ZERO == 58
OP_LOAD_ONE == 59
OP_INC_LOCAL == 60

STACK_MAX == 4096
FRAMES_MAX == 256

(***************************************************************************)
(* Values (bytecode.ts IJeValue).  Every value is a record of one shape:   *)
(* t is the variant, n the numeric payload or the heap / function-table    *)
(* index, s the string payload.  Undefined is the JavaScript value read    *)
(* from a stack slot or map entry that was never written.                  *)
(***************************************************************************)
Nil == [t |-> "nil", n |-> 0, d |-> 1, s |-> ""]
Undefined == [t |-> "undefined", n |-> 0, d |-> 1, s |-> ""]
Bool(b) == [t |-> "bool", n |-> IF b THEN 1 ELSE 0, d |-> 1, s |-> ""]
\* a Number is the rational n/d in lowest terms with d > 0; d = 0 encodes
\* the non-finite doubles: n = 0 is NaN, n = 1 is +Infinity, n = -1 is -Infinity
Num(k) == [t |-> "num", n |-> k, d |-> 1, s |-> ""]
NaN == [t |-> "num", n |-> 0, d |-> 0, s |-> ""]
Str(x) == [t |-> "str", n |-> 0, d |-> 1, s |-> x]
FunctionVal(id) == [t |-> "function", n |-> id, d |-> 1, s |-> ""]
Ref(kind, id) == [t |-> kind, n |-> id, d |-> 1, s |-> ""]

HeapKinds == {"closure", "class", "instance", "array", "object", "native", "bound_method"}

\* JavaScript typeof, as valuesEqual uses it
TypeOf(v) ==
    CASE v.t = "num" -> "number"
      [] v.t = "str" -> "string"
      [] v.t = "bool" -> "boolean"
      [] v.t = "undefined" -> "undefined"
      [] OTHER -> "object"

valuesEqual(a, b) ==
    IF TypeOf(a) # TypeOf(b) THEN FALSE
    ELSE IF a.t = "nil" THEN b.t = "nil"
    ELSE IF a.t = "num" THEN a # NaN /\ a.n = b.n /\ a.d = b.d
    ELSE IF a.t = "str" THEN a.s = b.s
    ELSE IF a.t = "bool" THEN a.n = b.n
    ELSE a.t = b.t /\ a.n = b.n

(***************************************************************************)
(* Chunks (bytecode.ts createChunk / writeChunk / addConstant).  Code      *)
(* offsets and constant indices are 0-based as in the source; the TLA+     *)
(* sequences that hold them are 1-based.                                   *)
(***************************************************************************)
createChunk(name) == [code |-> <<>>, constants |-> <<>>, lines |-> <<>>, name |-> name]

writeChunk(chunk, byte, line) ==
    [chunk EXCEPT !.code = Append(@, byte), !.lines = Append(@, line)]

\* result: the chunk after the insertion and the 0-based index returned
addConstant(chunk, value) ==
    LET hits == {i \in 1..Len(chunk.constants) : valuesEqual(chunk.constants[i], value)}
    IN IF hits # {}
       THEN [chunk |-> chunk, index |-> (CHOOSE i \in hits : \A j \in hits : i <= j) - 1]
       ELSE [chunk |-> [chunk EXCEPT !.constants = Append(@, value)],
             index |-> Len(chunk.constants)]

(***************************************************************************)
(* Compiler state (compiler.ts).  A compilation c is the table of          *)
(* functions built so far, the chain of CompilerState records (the last    *)
(* one is this.current, the one before it is its enclosing state) and the  *)
(* hadError flag.  A function is named by its index in c.funcs.            *)
(***************************************************************************)
TYPE_SCRIPT == 0
TYPE_FUNCTION == 1
TYPE_METHOD == 2
TYPE_INITIALIZER == 3

NoNode == [type |-> "None"]

Current(c) == c.states[Len(c.states)]

SetCurrent(c, st) == [c EXCEPT !.states[Len(c.states)] = st]

currentChunk(c) == c.funcs[Current(c).fn].chunk

\* errors counts the lines written by console.error
error(c) == [c EXCEPT !.hadError = TRUE, !.errors = @ + 1]

\* builds the function and its state and makes the state this.current,
\* its enclosing state being the previous this.current
createCompilerState(c, type, name) ==
    LET func == [name |-> name, arity |-> 0, chunk |-> createChunk(name), upvalueCount |-> 0]
        state == [fn |-> Len(c.funcs) + 1,
                  type |-> type,
                  locals |-> IF type # TYPE_SCRIPT
                             THEN << [name |-> IF type = TYPE_FUNCTION THEN "" ELSE "ni",
                                      depth |-> 0, isCaptured |-> FALSE] >>
                             ELSE << >>,
                  upvalues |-> << >>,
                  scopeDepth |-> 0,
                  loopStart |-> -1,
                  breakJumps |-> << >>]
    IN [c EXCEPT !.funcs = Append(@, func), !.states = Append(@, state)]

NewCompiler ==
    createCompilerState([funcs |-> << >>, states |-> << >>, hadError |-> FALSE, errors |-> 0],
                        TYPE_SCRIPT, "<script>")

\* Sequencing: the value v of one step is computed first and is then handed
\* to the next step F.
Then(v, F(_)) == CHOOSE r \in { F(w) : w \in {v} } : TRUE

emitByte(c, byte) ==
    [c EXCEPT !.funcs[Current(c).fn].chunk = writeChunk(@, byte, 0)]

emitBytes(c, byte1, byte2) == emitByte(emitByte(c, byte1), byte2)

makeConstant(c, value) ==
    Then(addConstant(currentChunk(c), value), LAMBDA r :
        [c |-> [c EXCEPT !.funcs[Current(c).fn].chunk = r.chunk], index |-> r.index])

emitConstant(c, value) ==
    Then(makeConstant(c, value), LAMBDA r : emitBytes(r.c, OP_CONSTANT, r.index))

identifierConstant(c, name) == makeConstant(c, Str(name))

emitJump(c, instruction) ==
    Then(emitByte(emitByte(emitByte(c, instruction), 255), 255), LAMBDA c1 :
        [c |-> c1, offset |-> Len(currentChunk(c1).code) - 2])

\* the patch with the two operand bytes in the other order
patchJumpLowFirst(c, offset) ==
    Then(Len(currentChunk(c).code) - offset - 2, LAMBDA jump :
        [(IF jump > 65535 THEN error(c) ELSE c) EXCEPT !.funcs[Current(c).fn].chunk.code =
            [@ EXCEPT ![offset + 1] = jump % 256,
                      ![offset + 2] = (jump \div 256) % 256]])

patchJump(c, offset) ==
    Then(Len(currentChunk(c).code) - offset - 2, LAMBDA jump :
        [(IF jump > 65535 THEN error(c) ELSE c) EXCEPT !.funcs[Current(c).fn].chunk.code =
            [@ EXCEPT ![offset + 1] = (jump \div 256) % 256,
                      ![offset + 2] = jump % 256]])

RECURSIVE patchJumps(_, _)
patchJumps(c, jumps) ==
    IF jumps = << >> THEN c ELSE patchJumps(patchJump(c, Head(jumps)), Tail(jumps))

emitLoop(c, loopStart) ==
    Then(emitByte(c, OP_LOOP), LAMBDA c1 :
    Then(Len(currentChunk(c1).code) - loopStart + 2, LAMBDA offset :
        emitByte(emitByte(IF offset > 65535 THEN error(c1) ELSE c1,
                          (offset \div 256) % 256), offset % 256)))

emitReturn(c) ==
    IF Current(c).type = TYPE_INITIALIZER
    THEN emitByte(emitBytes(c, OP_GET_LOCAL, 0), OP_RETURN)
    ELSE emitByte(emitByte(c, OP_NULL), OP_RETURN)

endCompiler(c) == emitReturn(c)

beginScope(c) == SetCurrent(c, [Current(c) EXCEPT !.scopeDepth = @ + 1])

\* the while loop of endScope: one local popped per iteration
RECURSIVE popScopeLocals(_)
popScopeLocals(c) ==
    Then(Current(c), LAMBDA st :
        IF Len(st.locals) > 0 /\ st.locals[Len(st.locals)].depth > st.scopeDepth
        THEN popScopeLocals(emitByte(
                SetCurrent(c, [st EXCEPT !.locals = SubSeq(@, 1, Len(@) - 1)]),
                IF st.locals[Len(st.locals)].isCaptured THEN OP_CLOSE_UPVALUE ELSE OP_POP))
        ELSE c)

endScope(c) ==
    popScopeLocals(SetCurrent(c, [Current(c) EXCEPT !.scopeDepth = @ - 1]))

(***************************************************************************)
(* Variable helpers                                                        *)
(***************************************************************************)
addLocal(c, name) ==
    SetCurrent(c, [Current(c) EXCEPT
        !.locals = Append(@, [name |-> name, depth |-> -1, isCaptured |-> FALSE])])

\* the backwards scan of declareVariable: the locals of the same name met
\* before the scan stops at a local of an outer scope
duplicateLocals(st, name) ==
    { i \in 1..Len(st.locals) :
        /\ st.locals[i].name = name
        /\ \A j \in i..Len(st.locals) :
              ~(st.locals[j].depth # -1 /\ st.locals[j].depth < st.scopeDepth) }

\* this.error called n times
RECURSIVE errorTimes(_, _)
errorTimes(c, n) == IF n = 0 THEN c ELSE errorTimes(error(c), n - 1)

\* declareVariable without the scan for a duplicate
declareVariableUnchecked(c, name) ==
    IF Current(c).scopeDepth = 0 THEN c ELSE addLocal(c, name)

declareVariable(c, name) ==
    IF Current(c).scopeDepth = 0 THEN c
    ELSE addLocal(errorTimes(c, Cardinality(duplicateLocals(Current(c), name))), name)

markInitialized(c) ==
    Then(Current(c), LAMBDA st :
        IF st.scopeDepth = 0 THEN c
        ELSE SetCurrent(c, [st EXCEPT !.locals[Len(st.locals)].depth = st.scopeDepth]))

parseVariable(c, name) ==
    Then(declareVariable(c, name), LAMBDA c1 :
        IF Current(c1).scopeDepth > 0 THEN [c |-> c1, index |-> 0]
        ELSE identifierConstant(c1, name))

defineVariable(c, global) ==
    IF Current(c).scopeDepth > 0 THEN markInitialized(c)
    ELSE emitBytes(c, OP_DEFINE_GLOBAL, global)

\* the newest local of that name in a state (1-based), 0 when there is none
newestLocal(st, name) ==
    Then({i \in 1..Len(st.locals) : st.locals[i].name = name}, LAMBDA hits :
        IF hits = {} THEN 0 ELSE CHOOSE i \in hits : \A j \in hits : j <= i)

\* the slot of the newest local of that name, -1 when there is none
resolveLocal(c, name) ==
    Then(newestLocal(Current(c), name), LAMBDA top :
        IF top = 0 THEN [c |-> c, index |-> -1]
        ELSE [c |-> IF Current(c).locals[top].depth = -1 THEN error(c) ELSE c,
              index |-> top - 1])

resolveLocalInEnclosing(c, name) ==
    IF Len(c.states) < 2 THEN -1
    ELSE newestLocal(c.states[Len(c.states) - 1], name) - 1

resolveUpvalueInEnclosing(c, name) == -1

\* the first upvalue of the state with that index and flag (1-based), 0 when none
findUpvalue(c, st, index, isLocal) ==
    Then({i \in 1..c.funcs[st.fn].upvalueCount :
            st.upvalues[i].index = index /\ st.upvalues[i].isLocal = isLocal}, LAMBDA hits :
        IF hits = {} THEN 0 ELSE CHOOSE i \in hits : \A j \in hits : i <= j)

addUpvalue(c, index, isLocal) ==
    Then(Current(c), LAMBDA st :
    Then(findUpvalue(c, st, index, isLocal), LAMBDA found :
        IF found # 0 THEN [c |-> c, index |-> found - 1]
        ELSE [c |-> [SetCurrent(c, [st EXCEPT !.upvalues =
                                     Append(@, [index |-> index, isLocal |-> isLocal])])
                     EXCEPT !.funcs[st.fn].upvalueCount = @ + 1],
              index |-> c.funcs[st.fn].upvalueCount]))

resolveUpvalue(c, name) ==
    IF Len(c.states) < 2 THEN [c |-> c, index |-> -1]
    ELSE Then(resolveLocalInEnclosing(c, name), LAMBDA local :
         Then(resolveUpvalueInEnclosing(c, name), LAMBDA upvalue :
            IF local # -1
            THEN addUpvalue([c EXCEPT !.states[Len(c.states) - 1].locals[local + 1].isCaptured = TRUE],
                            local, TRUE)
            ELSE IF upvalue # -1 THEN addUpvalue(c, upvalue, FALSE)
            ELSE [c |-> c, index |-> -1]))

\* the tail of namedVariable once the name is neither a local nor an upvalue
globalVariable(c, name, canAssign) ==
    Then(identifierConstant(c, name), LAMBDA g :
        emitBytes(g.c, IF canAssign THEN OP_SET_GLOBAL ELSE OP_GET_GLOBAL, g.index))

namedVariable(c, name, canAssign) ==
    Then(resolveLocal(c, name), LAMBDA l :
        IF l.index # -1
        THEN emitBytes(l.c, IF canAssign THEN OP_SET_LOCAL ELSE OP_GET_LOCAL, l.index)
        ELSE Then(resolveUpvalue(l.c, name), LAMBDA u :
            IF u.index # -1
            THEN emitBytes(u.c, IF canAssign THEN OP_SET_UPVALUE ELSE OP_GET_UPVALUE, u.index)
            ELSE globalVariable(u.c, name, canAssign)))

(***************************************************************************)
(* Numbers.  JavaScript doubles are modelled exactly on the rationals,     *)
(* which covers every literal and every result the programs below compute. *)
(***************************************************************************)
Abs(k) == IF k < 0 THEN -k ELSE k

RECURSIVE Gcd(_, _)
Gcd(a, b) == IF b = 0 THEN a ELSE Gcd(b, a % b)

\* the Number p/q, q # 0, in lowest terms
Rat(p, q) ==
    LET g == Gcd(Abs(p), Abs(q))
        sg == IF q < 0 THEN -1 ELSE 1
    IN [t |-> "num", n |-> (sg * p) \div g, d |-> (sg * q) \div g, s |-> ""]

IsFinite(a) == a.d # 0

Infinity(sign) == [t |-> "num", n |-> sign, d |-> 0, s |-> ""]

RECURSIVE IntPow(_, _)
IntPow(b, e) == IF e = 0 THEN 1 ELSE b * IntPow(b, e - 1)

\* the integer part of p/q (q > 0), rounded toward zero
Trunc(p, q) == IF p >= 0 THEN p \div q ELSE -((-p) \div q)

NumAdd(a, b) ==
    IF IsFinite(a) /\ IsFinite(b) THEN Rat(a.n * b.d + b.n * a.d, a.d * b.d)
    ELSE IF a = NaN \/ b = NaN THEN NaN
    ELSE IF ~IsFinite(a) /\ ~IsFinite(b) THEN (IF a.n = b.n THEN a ELSE NaN)
    ELSE IF IsFinite(a) THEN b ELSE a

NumNeg(a) == [a EXCEPT !.n = -a.n]

NumSub(a, b) == NumAdd(a, NumNeg(b))

Sign(k) == IF k > 0 THEN 1 ELSE IF k < 0 THEN -1 ELSE 0

NumMul(a, b) ==
    IF IsFinite(a) /\ IsFinite(b) THEN Rat(a.n * b.n, a.d * b.d)
    ELSE IF a = NaN \/ b = NaN \/ a.n = 0 \/ b.n = 0 THEN NaN
    ELSE Infinity(Sign(a.n) * Sign(b.n))

NumDiv(a, b) ==
    IF IsFinite(a) /\ IsFinite(b)
    THEN IF b.n # 0 THEN Rat(a.n * b.d, a.d * b.n)
         ELSE IF a.n = 0 THEN NaN ELSE Infinity(Sign(a.n))
    ELSE IF a = NaN \/ b = NaN \/ (~IsFinite(a) /\ ~IsFinite(b)) THEN NaN
    ELSE IF IsFinite(a) THEN Num(0) ELSE Infinity(Sign(a.n) * (IF b.n < 0 THEN -1 ELSE 1))

\* a % b keeps the sign of the dividend
NumMod(a, b) ==
    IF a = NaN \/ b = NaN \/ ~IsFinite(a) THEN NaN
    ELSE IF ~IsFinite(b) THEN a
    ELSE IF b.n = 0 THEN NaN
    ELSE LET q == Trunc(a.n * b.d, a.d * Abs(b.n))
         IN NumSub(a, NumMul(Num(q), Rat(Abs(b.n), b.d)))

\* Math.pow for an integer exponent
NumPow(a, b) ==
    IF b = NaN THEN NaN
    ELSE IF IsFinite(b) /\ b.n = 0 THEN Num(1)
    ELSE IF a = NaN \/ ~IsFinite(a) \/ ~IsFinite(b) \/ b.d # 1 THEN NaN
    ELSE IF b.n > 0 THEN Rat(IntPow(a.n, b.n), IntPow(a.d, b.n))
    ELSE IF a.n = 0 THEN Infinity(1)
    ELSE Rat(IntPow(a.d, -b.n), IntPow(a.n, -b.n))

NumLess(a, b) ==
    IF a = NaN \/ b = NaN THEN FALSE
    ELSE IF IsFinite(a) /\ IsFinite(b) THEN a.n * b.d < b.n * a.d
    ELSE IF ~IsFinite(a) /\ ~IsFinite(b) THEN a.n < b.n
    ELSE IF IsFinite(a) THEN b.n > 0 ELSE a.n < 0

NumEq(a, b) == a # NaN /\ b # NaN /\ a = b

NumLessEq(a, b) == NumLess(a, b) \/ NumEq(a, b)

(***************************************************************************)
(* Expression and statement lowering (compiler.ts).  AST nodes are         *)
(* records with the field names of src/ast.ts; an absent optional child    *)
(* is NoNode; a literal carries a Value.                                   *)
(***************************************************************************)
FoldableOperators == {"+", "-", "*", "/", "%", "**", ">", ">=", "<", "<=", "==", "!="}

\* the folded literal of compileBinaryExpr; Undefined when nothing is folded
\* the fold with the operands taken in the other order
foldResultSwapped(operator, left, right) ==
    CASE operator = "+" -> NumAdd(right, left)
      [] operator = "-" -> NumSub(right, left)
      [] operator = "*" -> NumMul(right, left)
      [] operator = "/" -> IF ~NumEq(right, Num(0)) THEN NumDiv(right, left) ELSE Undefined
      [] operator = "%" -> NumMod(right, left)
      [] operator = "**" -> NumPow(right, left)
      [] operator = ">" -> Bool(NumLess(left, right))
      [] operator = ">=" -> Bool(NumLessEq(left, right))
      [] operator = "<" -> Bool(NumLess(right, left))
      [] operator = "<=" -> Bool(NumLessEq(right, left))
      [] operator = "==" -> Bool(NumEq(right, left))
      [] operator = "!=" -> Bool(~NumEq(right, left))
      [] OTHER -> Undefined

foldResult(operator, left, right) ==
    CASE operator = "+" -> NumAdd(left, right)
      [] operator = "-" -> NumSub(left, right)
      [] operator = "*" -> NumMul(left, right)
      [] operator = "/" -> IF ~NumEq(right, Num(0)) THEN NumDiv(left, right) ELSE Undefined
      [] operator = "%" -> NumMod(left, right)
      [] operator = "**" -> NumPow(left, right)
      [] operator = ">" -> Bool(NumLess(right, left))
      [] operator = ">=" -> Bool(NumLessEq(right, left))
      [] operator = "<" -> Bool(NumLess(left, right))
      [] operator = "<=" -> Bool(NumLessEq(left, right))
      [] operator = "==" -> Bool(NumEq(left, right))
      [] operator = "!=" -> Bool(~NumEq(left, right))
      [] OTHER -> Undefined

compileLiteral(c, expr) ==
    CASE expr.value = Bool(TRUE) -> emitByte(c, OP_TRUE)
      [] expr.value = Bool(FALSE) -> emitByte(c, OP_FALSE)
      [] expr.value = Nil -> emitByte(c, OP_NULL)
      [] expr.value = Num(0) -> emitByte(c, OP_LOAD_ZERO)
      [] expr.value = Num(1) -> emitByte(c, OP_LOAD_ONE)
      [] OTHER -> emitConstant(c, expr.value)

binaryOpcodes(operator) ==
    CASE operator = "+" -> << OP_ADD >>
      [] operator = "-" -> << OP_SUBTRACT >>
      [] operator = "*" -> << OP_MULTIPLY >>
      [] operator = "/" -> << OP_DIVIDE >>
      [] operator = "%" -> << OP_MODULO >>
      [] operator = "**" -> << OP_POWER >>
      [] operator = ">" -> << OP_GREATER >>
      [] operator = ">=" -> << OP_GREATER_EQUAL >>
      [] operator = "<" -> << OP_LESS >>
      [] operator = "<=" -> << OP_LESS_EQUAL >>
      [] operator = "==" -> << OP_EQUAL >>
      [] operator = "!=" -> << OP_EQUAL, OP_NOT >>
      [] operator = "&" -> << OP_BIT_AND >>
      [] operator = "|" -> << OP_BIT_OR >>
      [] operator = "^" -> << OP_BIT_XOR >>
      [] operator = "<<" -> << OP_LSHIFT >>
      [] operator = ">>" -> << OP_RSHIFT >>
      [] OTHER -> << >>

unaryOpcodes(operator) ==
    CASE operator = "-" -> << OP_NEGATE >>
      [] operator = "!" -> << OP_NOT >>
      [] operator = "~" -> << OP_BIT_NOT >>
      [] OTHER -> << >>

RECURSIVE emitAll(_, _)
emitAll(c, bytes) ==
    IF bytes = << >> THEN c ELSE emitAll(emitByte(c, Head(bytes)), Tail(bytes))

RECURSIVE emitUpvalueInfo(_, _)
emitUpvalueInfo(c, upvalues) ==
    IF upvalues = << >> THEN c
    ELSE emitUpvalueInfo(
            emitByte(emitByte(c, IF Head(upvalues).isLocal THEN 1 ELSE 0), Head(upvalues).index),
            Tail(upvalues))

RECURSIVE compileParams(_, _)
compileParams(c, params) ==
    IF params = << >> THEN c
    ELSE Then(parseVariable([c EXCEPT !.funcs[Current(c).fn].arity = @ + 1],
                            Head(params).name), LAMBDA r :
            compileParams(defineVariable(r.c, r.index), Tail(params)))

\* the tail of compileFunction and compileFunctionExpr: endCompiler, then
\* the CLOSURE instruction and the upvalue pairs are emitted through
\* this.current, and only then does this.current go back to the enclosing state
finishFunction(c) ==
    Then(endCompiler(c), LAMBDA c1 :
    Then(makeConstant(c1, FunctionVal(Current(c1).fn)), LAMBDA r :
    Then(emitBytes(r.c, OP_CLOSURE, r.index), LAMBDA c2 :
    Then(emitUpvalueInfo(c2, Current(c2).upvalues), LAMBDA c3 :
        [c3 EXCEPT !.states = SubSeq(@, 1, Len(@) - 1)]))))

RECURSIVE compileStatement(_, _), compileStatements(_, _), compileExpression(_, _),
          compileExpressions(_, _), compilePrintExprs(_, _), compileIfStmt(_, _),
          compileMethods(_, _), compileCases(_, _, _), compileProperties(_, _)

\* the statement loop leaving at the first recorded error
RECURSIVE compileStatementsAborting(_, _)
compileStatementsAborting(c, stmts) ==
    IF stmts = << >> \/ c.hadError THEN c
    ELSE Then(compileStatement(c, Head(stmts)), LAMBDA c1 :
            compileStatementsAborting(c1, Tail(stmts)))

compileStatements(c, stmts) ==
    IF stmts = << >> THEN c
    ELSE Then(compileStatement(c, Head(stmts)), LAMBDA c1 :
            compileStatements(c1, Tail(stmts)))

compileExpressions(c, exprs) ==
    IF exprs = << >> THEN c
    ELSE Then(compileExpression(c, Head(exprs)), LAMBDA c1 :
            compileExpressions(c1, Tail(exprs)))

compileVarStmt(c, stmt) ==
    Then(parseVariable(c, stmt.name), LAMBDA r :
        defineVariable(IF stmt.value # NoNode THEN compileExpression(r.c, stmt.value)
                       ELSE emitByte(r.c, OP_NULL),
                       r.index))

compilePrintExprs(c, exprs) ==
    IF exprs = << >> THEN c
    ELSE Then(emitByte(compileExpression(c, Head(exprs)), OP_PRINT), LAMBDA c1 :
            compilePrintExprs(c1, Tail(exprs)))

compilePrintStmt(c, stmt) == compilePrintExprs(c, stmt.expressions)

compileScopedBlock(c, stmts) == endScope(compileStatements(beginScope(c), stmts))

\* the else part of compileIfStmt
compileElse(c, stmt) ==
    IF stmt.elseBranch = NoNode THEN c
    ELSE IF stmt.elseBranch.type = "IfStmt" THEN compileIfStmt(c, stmt.elseBranch)
    ELSE compileScopedBlock(c, stmt.elseBranch.statements)

compileIfStmt(c, stmt) ==
    Then(emitJump(compileExpression(c, stmt.condition), OP_JUMP_IF_FALSE), LAMBDA thenJump :
    Then(emitJump(compileScopedBlock(emitByte(thenJump.c, OP_POP), stmt.thenBranch.statements),
                  OP_JUMP), LAMBDA elseJump :
        patchJump(compileElse(emitByte(patchJump(elseJump.c, thenJump.offset), OP_POP), stmt),
                  elseJump.offset)))

\* loop state saved on entry and restored on exit by the two loop statements
enterLoop(c, loopStart) ==
    SetCurrent(c, [Current(c) EXCEPT !.loopStart = loopStart, !.breakJumps = << >>])

\* the end of a loop without the restoring of the loop state
leaveLoopKeeping(c, saved) == patchJumps(c, Current(c).breakJumps)

leaveLoop(c, saved) ==
    Then(patchJumps(c, Current(c).breakJumps), LAMBDA c1 :
        SetCurrent(c1, [Current(c1) EXCEPT !.loopStart = saved.loopStart,
                                           !.breakJumps = saved.breakJumps]))

compileWhileStmt(c, stmt) ==
    Then(Len(currentChunk(c).code), LAMBDA loopStart :
    Then(emitJump(compileExpression(enterLoop(c, loopStart), stmt.condition),
                  OP_JUMP_IF_FALSE), LAMBDA exitJump :
    Then(compileScopedBlock(emitByte(exitJump.c, OP_POP), stmt.body.statements), LAMBDA c3 :
        leaveLoop(emitByte(patchJump(emitLoop(c3, loopStart), exitJump.offset), OP_POP),
                  Current(c)))))

\* the increment of compileForStmt
compileStep(c, stmt, slot) ==
    IF stmt.step = NoNode \/ (stmt.step.type = "Literal" /\ stmt.step.value = Num(1))
    THEN emitBytes(c, OP_INC_LOCAL, slot)
    ELSE emitByte(emitBytes(emitByte(compileExpression(
              emitBytes(c, OP_GET_LOCAL, slot), stmt.step), OP_ADD),
              OP_SET_LOCAL, slot), OP_POP)

compileForStmt(c, stmt) ==
    Then(markInitialized(addLocal(compileExpression(beginScope(c), stmt.start),
                                  stmt.variable)), LAMBDA c1 :
    Then(Len(currentChunk(c1).code), LAMBDA loopStart :
    Then(resolveLocal(enterLoop(c1, loopStart), stmt.variable), LAMBDA slot :
    Then(emitJump(emitByte(compileExpression(emitBytes(slot.c, OP_GET_LOCAL, slot.index),
                                             stmt.end), OP_LESS),
                  OP_JUMP_IF_FALSE), LAMBDA exitJump :
    Then(compileScopedBlock(emitByte(exitJump.c, OP_POP), stmt.body.statements), LAMBDA c4 :
        endScope(leaveLoop(
            emitByte(patchJump(emitLoop(compileStep(c4, stmt, slot.index), loopStart),
                               exitJump.offset), OP_POP),
            Current(c1))))))))

compileFunction(c, stmt, type) ==
    Then(beginScope(createCompilerState(c, type, stmt.name)), LAMBDA c1 :
    Then(compileParams(c1, stmt.params), LAMBDA c2 :
    Then(compileStatements(c2, stmt.body.statements), LAMBDA c3 :
        finishFunction(c3))))

compileFunctionStmt(c, stmt) ==
    Then(parseVariable(c, stmt.name), LAMBDA r :
        defineVariable(compileFunction(markInitialized(r.c), stmt, TYPE_FUNCTION), r.index))

compileReturnStmt(c, stmt) ==
    Then(IF Current(c).type = TYPE_SCRIPT THEN error(c) ELSE c, LAMBDA c1 :
        IF stmt.value # NoNode
        THEN emitByte(compileExpression(c1, stmt.value), OP_RETURN)
        ELSE emitReturn(c1))

compileMethods(c, methods) ==
    IF methods = << >> THEN c
    ELSE Then(identifierConstant(c, Head(methods).name), LAMBDA r :
         Then(emitBytes(compileFunction(r.c, Head(methods),
                                        IF Head(methods).name = "sang"
                                        THEN TYPE_INITIALIZER ELSE TYPE_METHOD),
                        OP_METHOD, r.index), LAMBDA c1 :
            compileMethods(c1, Tail(methods))))

compileClassStmt(c, stmt) ==
    Then(identifierConstant(c, stmt.name), LAMBDA r :
    Then(emitBytes(declareVariable(r.c, stmt.name), OP_CLASS, r.index), LAMBDA c1 :
    Then(namedVariable(defineVariable(c1, r.index), stmt.name, FALSE), LAMBDA c2 :
        emitByte(compileMethods(c2, stmt.body.methods), OP_POP))))

compileBreakStmt(c) ==
    IF Current(c).loopStart = -1 THEN error(c)
    ELSE Then(emitJump(c, OP_JUMP), LAMBDA jump :
            SetCurrent(jump.c, [Current(jump.c) EXCEPT !.breakJumps = Append(@, jump.offset)]))

compileContinueStmt(c) ==
    IF Current(c).loopStart = -1 THEN error(c)
    ELSE emitLoop(c, Current(c).loopStart)

\* compileCases without the jump to the end after a case body: the body
\* runs on into the next comparison (the single match of C11 rests on the jump)
RECURSIVE compileCasesFallThrough(_, _, _)
compileCasesFallThrough(c, cases, endJumps) ==
    IF cases = << >> THEN [c |-> c, endJumps |-> endJumps]
    ELSE Then(emitJump(emitByte(compileExpression(emitByte(c, OP_DUP), Head(cases).value),
                                OP_EQUAL),
                       OP_JUMP_IF_FALSE), LAMBDA skipJump :
         Then(compileScopedBlock(emitByte(emitByte(skipJump.c, OP_POP), OP_POP),
                                 Head(cases).body.statements), LAMBDA body :
            compileCasesFallThrough(emitByte(patchJump(body, skipJump.offset), OP_POP),
                                    Tail(cases), endJumps)))

\* one iteration per case; endJumps collects the patch sites of the end jumps
compileCases(c, cases, endJumps) ==
    IF cases = << >> THEN [c |-> c, endJumps |-> endJumps]
    ELSE Then(emitJump(emitByte(compileExpression(emitByte(c, OP_DUP), Head(cases).value),
                                OP_EQUAL),
                       OP_JUMP_IF_FALSE), LAMBDA skipJump :
         Then(emitJump(compileScopedBlock(emitByte(emitByte(skipJump.c, OP_POP), OP_POP),
                                          Head(cases).body.statements),
                       OP_JUMP), LAMBDA endJump :
            compileCases(emitByte(patchJump(endJump.c, skipJump.offset), OP_POP),
                         Tail(cases), Append(endJumps, endJump.offset))))

compileSwitchStmt(c, stmt) ==
    Then(compileCases(compileExpression(c, stmt.discriminant), stmt.cases, << >>), LAMBDA r :
    Then(emitByte(r.c, OP_POP), LAMBDA c2 :
        patchJumps(IF stmt.defaultCase # NoNode
                   THEN compileScopedBlock(c2, stmt.defaultCase.statements) ELSE c2,
                   r.endJumps)))

compileStatement(c, stmt) ==
    CASE stmt.type = "VarStmt" -> compileVarStmt(c, stmt)
      [] stmt.type = "PrintStmt" -> compilePrintStmt(c, stmt)
      [] stmt.type = "ExprStmt" -> emitByte(compileExpression(c, stmt.expression), OP_POP)
      [] stmt.type = "BlockStmt" -> compileScopedBlock(c, stmt.statements)
      [] stmt.type = "IfStmt" -> compileIfStmt(c, stmt)
      [] stmt.type = "WhileStmt" -> compileWhileStmt(c, stmt)
      [] stmt.type = "ForStmt" -> compileForStmt(c, stmt)
      [] stmt.type = "FunctionStmt" -> compileFunctionStmt(c, stmt)
      [] stmt.type = "ReturnStmt" -> compileReturnStmt(c, stmt)
      [] stmt.type = "ClassStmt" -> compileClassStmt(c, stmt)
      [] stmt.type = "BreakStmt" -> compileBreakStmt(c)
      [] stmt.type = "ContinueStmt" -> compileContinueStmt(c)
      [] stmt.type = "TryStmt" -> c
      [] stmt.type = "SwitchStmt" -> compileSwitchStmt(c, stmt)
      [] OTHER -> c

compileBinaryExpr(c, expr) ==
    IF /\ expr.left.type = "Literal" /\ expr.right.type = "Literal"
       /\ expr.left.value.t = "num" /\ expr.right.value.t = "num"
       /\ foldResult(expr.operator, expr.left.value, expr.right.value) # Undefined
    THEN compileLiteral(c, [type |-> "Literal",
                            value |-> foldResult(expr.operator, expr.left.value,
                                                 expr.right.value)])
    ELSE emitAll(compileExpression(compileExpression(c, expr.left), expr.right),
                 binaryOpcodes(expr.operator))

compileUnaryExpr(c, expr) ==
    emitAll(compileExpression(c, expr.operand), unaryOpcodes(expr.operator))

compileLogicalExpr(c, expr) ==
    Then(emitJump(compileExpression(c, expr.left),
                  IF expr.operator = "||" THEN OP_JUMP_IF_TRUE ELSE OP_JUMP_IF_FALSE),
         LAMBDA jump :
        patchJump(compileExpression(emitByte(jump.c, OP_POP), expr.right), jump.offset))

compileTernaryExpr(c, expr) ==
    Then(emitJump(compileExpression(c, expr.condition), OP_JUMP_IF_FALSE), LAMBDA thenJump :
    Then(emitJump(compileExpression(emitByte(thenJump.c, OP_POP), expr.consequent), OP_JUMP),
         LAMBDA elseJump :
        patchJump(compileExpression(emitByte(patchJump(elseJump.c, thenJump.offset), OP_POP),
                                    expr.alternate),
                  elseJump.offset)))

compileCallExpr(c, expr) ==
    emitBytes(compileExpressions(compileExpression(c, expr.callee), expr.args),
              OP_CALL, Len(expr.args))

compileMemberExpr(c, expr) ==
    Then(identifierConstant(compileExpression(c, expr.object), expr.property), LAMBDA r :
        emitBytes(r.c, OP_GET_PROPERTY, r.index))

compileIndexExpr(c, expr) ==
    emitByte(compileExpression(compileExpression(c, expr.object), expr.index), OP_GET_INDEX)

\* the member branch of compileAssignExpr, the value already compiled
compileMemberAssign(c, target) ==
    Then(identifierConstant(compileExpression(c, target.object), target.property), LAMBDA r :
        emitBytes(r.c, OP_SET_PROPERTY, r.index))

compileAssignExpr(c, expr) ==
    Then(compileExpression(c, expr.value), LAMBDA c1 :
        CASE expr.target.type = "Variable" -> namedVariable(c1, expr.target.name, TRUE)
          [] expr.target.type = "MemberExpr" -> compileMemberAssign(c1, expr.target)
          [] expr.target.type = "IndexExpr" ->
                 emitByte(compileExpression(compileExpression(c1, expr.target.object),
                                            expr.target.index), OP_SET_INDEX)
          [] OTHER -> c1)

compileArrayExpr(c, expr) ==
    emitBytes(compileExpressions(c, expr.elements), OP_ARRAY, Len(expr.elements))

\* a property key is either a string (a Value) or a computed expression (a node)
compileProperties(c, properties) ==
    IF properties = << >> THEN c
    ELSE Then(compileExpression(
                 IF "t" \in DOMAIN Head(properties).key
                 THEN emitConstant(c, Head(properties).key)
                 ELSE compileExpression(c, Head(properties).key),
                 Head(properties).value), LAMBDA c1 :
            compileProperties(c1, Tail(properties)))

compileObjectExpr(c, expr) ==
    emitBytes(compileProperties(c, expr.properties), OP_OBJECT, Len(expr.properties))

compileFunctionExpr(c, expr) ==
    Then(beginScope(createCompilerState(c, TYPE_FUNCTION, "<anonymous>")), LAMBDA c1 :
    Then(compileParams(c1, expr.params), LAMBDA c2 :
    Then(IF expr.body.type = "BlockStmt" THEN compileStatements(c2, expr.body.statements)
         ELSE emitByte(compileExpression(c2, expr.body), OP_RETURN), LAMBDA c3 :
        finishFunction(c3))))

compileNewExpr(c, expr) ==
    emitBytes(compileExpressions(compileExpression(c, expr.callee), expr.args),
              OP_CALL, Len(expr.args))

compileExpression(c, expr) ==
    CASE expr.type = "Literal" -> compileLiteral(c, expr)
      [] expr.type = "Variable" -> namedVariable(c, expr.name, FALSE)
      [] expr.type = "BinaryExpr" -> compileBinaryExpr(c, expr)
      [] expr.type = "UnaryExpr" -> compileUnaryExpr(c, expr)
      [] expr.type = "LogicalExpr" -> compileLogicalExpr(c, expr)
      [] expr.type = "TernaryExpr" -> compileTernaryExpr(c, expr)
      [] expr.type = "CallExpr" -> compileCallExpr(c, expr)
      [] expr.type = "MemberExpr" -> compileMemberExpr(c, expr)
      [] expr.type = "IndexExpr" -> compileIndexExpr(c, expr)
      [] expr.type = "AssignExpr" -> compileAssignExpr(c, expr)
      [] expr.type = "ArrayExpr" -> compileArrayExpr(c, expr)
      [] expr.type = "ObjectExpr" -> compileObjectExpr(c, expr)
      [] expr.type = "FunctionExpr" -> compileFunctionExpr(c, expr)
      [] expr.type = "ThisExpr" -> namedVariable(c, "ni", FALSE)
      [] expr.type = "NewExpr" -> compileNewExpr(c, expr)
      [] OTHER -> error(c)

\* compile: the compilation after the whole program; the Function returned
\* to the caller is funcs[1] unless hadError
compile(program) == emitReturn(compileStatements(NewCompiler, program.body))

(***************************************************************************)
(* AST constructors (src/ast.ts node shapes, as the parser builds them)    *)
(***************************************************************************)
Literal(v) == [type |-> "Literal", value |-> v]
Variable(name) == [type |-> "Variable", name |-> name]
BinaryExpr(l, op, r) == [type |-> "BinaryExpr", left |-> l, operator |-> op, right |-> r]
UnaryExpr(op, e) == [type |-> "UnaryExpr", operator |-> op, operand |-> e]
LogicalExpr(l, op, r) == [type |-> "LogicalExpr", left |-> l, operator |-> op, right |-> r]
TernaryExpr(cnd, a, b) == [type |-> "TernaryExpr", condition |-> cnd, consequent |-> a, alternate |-> b]
CallExpr(callee, args) == [type |-> "CallExpr", callee |-> callee, args |-> args]
MemberExpr(obj, prop) == [type |-> "MemberExpr", object |-> obj, property |-> prop]
IndexExpr(obj, idx) == [type |-> "IndexExpr", object |-> obj, index |-> idx]
AssignExpr(target, v) == [type |-> "AssignExpr", target |-> target, operator |-> "=", value |-> v]
ArrayExpr(elems) == [type |-> "ArrayExpr", elements |-> elems]
ObjectProperty(k, v) == [key |-> k, value |-> v]
ObjectExpr(props) == [type |-> "ObjectExpr", properties |-> props]
FunctionExpr(params, body) == [type |-> "FunctionExpr", params |-> params, body |-> body]
ThisExpr == [type |-> "ThisExpr"]
NewExpr(callee, args) == [type |-> "NewExpr", callee |-> callee, args |-> args]
AwaitExpr(arg) == [type |-> "AwaitExpr", argument |-> arg]
SpreadExpr(arg) == [type |-> "SpreadExpr", argument |-> arg]

Parameter(name) == [name |-> name]
BlockStmt(stmts) == [type |-> "BlockStmt", statements |-> stmts]
VarStmt(name, v) == [type |-> "VarStmt", name |-> name, value |-> v]
AssignStmt(name, v) == [type |-> "AssignStmt", name |-> name, value |-> v]
PrintStmt(exprs) == [type |-> "PrintStmt", expressions |-> exprs]
ExprStmt(e) == [type |-> "ExprStmt", expression |-> e]
IfStmt(cnd, thenB, elseB) == [type |-> "IfStmt", condition |-> cnd, thenBranch |-> thenB, elseBranch |-> elseB]
WhileStmt(cnd, body) == [type |-> "WhileStmt", condition |-> cnd, body |-> body]
ForStmt(v, start, end, step, body) ==
    [type |-> "ForStmt", variable |-> v, start |-> start, end |-> end, step |-> step, body |-> body]
FunctionStmt(name, params, body) ==
    [type |-> "FunctionStmt", name |-> name, params |-> params, body |-> body]
ReturnStmt(v) == [type |-> "ReturnStmt", value |-> v]
ClassStmt(name, methods) ==
    [type |-> "ClassStmt", name |-> name, body |-> [methods |-> methods]]
BreakStmt == [type |-> "BreakStmt"]
ContinueStmt == [type |-> "ContinueStmt"]
SwitchCase(v, body) == [value |-> v, body |-> body]
SwitchStmt(disc, cases, dflt) ==
    [type |-> "SwitchStmt", discriminant |-> disc, cases |-> cases, defaultCase |-> dflt]
Program(body) == [type |-> "Program", body |-> body]

(***************************************************************************)
(* The virtual machine (vm.ts).                                            *)
(*                                                                         *)
(* heap holds the objects that values refer to by identity: closures,      *)
(* classes, instances, arrays, objects, bound methods and natives.  upvals *)
(* holds the Upvalue handles.  stack is the backing array of the value     *)
(* stack: it keeps what was written above stackTop, as the source's array  *)
(* does, and a slot never written reads as Undefined.                      *)
(*                                                                         *)
(* status: "new" before compilation, "compiled" / "nofunc" after it,       *)
(* "running" inside execute(), "suspended" when every activation of        *)
(* execute() stands at an await, "done" when run() has returned, "fault"   *)
(* when runtimeError has thrown, "crash" when the host language itself     *)
(* has thrown (a TypeError on a property of null / undefined).             *)
(***************************************************************************)
VARIABLES input, status, functions, hadError,
          stack, stackTop, frames, globals, heap, upvals, openUpvalues,
          output, result,
          runs,           \* per run the host starts (run() on the VM, the
                          \* interpreter after it): the status it found
          loops           \* the activations of execute() that stand at an await

vars == << input, status, functions, hadError, stack, stackTop, frames, globals,
           heap, upvals, openUpvalues, output, result, runs, loops >>

\* What an activation of execute() waits for at the await of OP_CALL: the
\* promise of callValue and, inside callValue, the promise of native.fn,
\* whose value callValue pushes when it resumes (push).  native tells that
\* the callee is a Native.
NoYield == [native |-> FALSE, push |-> FALSE, value |-> Undefined]

\* the VM's mutable state as one record; a handler is a function on it
Machine == [stack |-> stack, stackTop |-> stackTop, frames |-> frames, globals |-> globals,
            heap |-> heap, upvals |-> upvals, openUpvalues |-> openUpvalues,
            output |-> output, result |-> result, status |-> status, yield |-> NoYield]

Store(m) ==
    /\ stack' = m.stack
    /\ stackTop' = m.stackTop
    /\ frames' = m.frames
    /\ globals' = m.globals
    /\ heap' = m.heap
    /\ upvals' = m.upvals
    /\ openUpvalues' = m.openUpvalues
    /\ output' = m.output
    /\ result' = m.result
    /\ status' = m.status
    /\ UNCHANGED << input, functions, hadError >>

\* a step of execute(): the host calls nothing
Commit(m) == Store(m) /\ UNCHANGED << runs, loops >>

Running(m) == m.status = "running"

\* a thrown host exception that is not a runtimeError
Crash(m) == IF Running(m) THEN [m EXCEPT !.status = "crash"] ELSE m

(***************************************************************************)
(* Insertion-ordered maps (the JavaScript Map of fields and properties):   *)
(* a sequence of key / value pairs; set on a present key keeps its place.  *)
(***************************************************************************)
MapIndex(map, key) ==
    LET hits == {i \in 1..Len(map) : map[i].key = key}
    IN IF hits = {} THEN 0 ELSE CHOOSE i \in hits : TRUE

MapHas(map, key) == MapIndex(map, key) # 0

MapGet(map, key) == IF MapHas(map, key) THEN map[MapIndex(map, key)].value ELSE Undefined

MapSet(map, key, value) ==
    IF MapHas(map, key) THEN [map EXCEPT ![MapIndex(map, key)].value = value]
    ELSE Append(map, [key |-> key, value |-> value])

(***************************************************************************)
(* Host-language conversions used by the handlers                          *)
(***************************************************************************)
\* the operand of the JavaScript ! operator
JSFalsy(v) ==
    \/ v.t \in {"nil", "undefined"}
    \/ v = Bool(FALSE)
    \/ (v.t = "num" /\ (v = NaN \/ (v.d # 0 /\ v.n = 0)))
    \/ v = Str("")

DecimalStrings == [k \in 0..99 |-> ToString(k)]

\* Number(v); a String converts when it is empty or the decimal form of 0..99
ToNumber(v) ==
    CASE v.t = "num" -> v
      [] v.t = "nil" -> Num(0)
      [] v.t = "bool" -> Num(v.n)
      [] v.t = "str" -> IF v.s = "" THEN Num(0)
                        ELSE IF \E k \in DOMAIN DecimalStrings : DecimalStrings[k] = v.s
                        THEN Num(CHOOSE k \in DOMAIN DecimalStrings : DecimalStrings[k] = v.s)
                        ELSE NaN
      [] OTHER -> NaN

\* Number.prototype.toString for the integers and the non-finite doubles
NumberToString(v) ==
    IF v = NaN THEN "NaN"
    ELSE IF v.d = 0 THEN (IF v.n > 0 THEN "Infinity" ELSE "-Infinity")
    ELSE IF v.d = 1 THEN ToString(v.n)
    ELSE ToString(v.n) \o "/" \o ToString(v.d)

\* String(v)
JSString(v) ==
    CASE v.t = "num" -> NumberToString(v)
      [] v.t = "str" -> v.s
      [] v.t = "nil" -> "null"
      [] v.t = "undefined" -> "undefined"
      [] v.t = "bool" -> IF v.n = 1 THEN "true" ELSE "false"
      [] OTHER -> "[object Object]"

\* a + b of the host language for operands that are not both Numbers
JSAdd(a, b) ==
    IF a.t \in {"num", "nil", "bool", "undefined"} /\ b.t \in {"num", "nil", "bool", "undefined"}
    THEN NumAdd(ToNumber(a), ToNumber(b))
    ELSE Str(JSString(a) \o JSString(b))

(***************************************************************************)
(* Helpers (vm.ts 741-825)                                                 *)
(***************************************************************************)
currentFrame(m) == m.frames[Len(m.frames)]

FrameChunk(m) == functions[m.heap[currentFrame(m).closure].function].chunk

StackRead(st, index) == IF index >= 0 /\ index < Len(st) THEN st[index + 1] ELSE Undefined

RECURSIVE Holes(_)
Holes(k) == IF k <= 0 THEN << >> ELSE << Undefined >> \o Holes(k - 1)

StackWrite(st, index, value) ==
    IF index < 0 THEN st
    ELSE IF index < Len(st) THEN [st EXCEPT ![index + 1] = value]
    ELSE st \o Holes(index - Len(st)) \o << value >>

runtimeError(m, message) ==
    IF ~Running(m) THEN m
    ELSE IF m.frames = << >> THEN Crash(m)
    ELSE LET lines == FrameChunk(m).lines
             ip == currentFrame(m).ip
             line == IF ip >= 1 /\ ip <= Len(lines) THEN lines[ip] ELSE 0
         IN [m EXCEPT !.output = Append(@, "Runtime Error at line " \o ToString(line)
                                            \o ": " \o message),
                      !.status = "fault"]

readByte(m) ==
    IF ~Running(m) THEN [m |-> m, byte |-> -1]
    ELSE IF m.frames = << >> THEN [m |-> Crash(m), byte |-> -2]
    ELSE LET code == FrameChunk(m).code
             ip == currentFrame(m).ip
         IN [m |-> [m EXCEPT !.frames[Len(m.frames)].ip = ip + 1],
             byte |-> IF ip < Len(code) THEN code[ip + 1] ELSE -1]

readShort(m) ==
    IF ~Running(m) THEN [m |-> m, short |-> 0]
    ELSE LET code == FrameChunk(m).code
             ip == currentFrame(m).ip
         IN [m |-> [m EXCEPT !.frames[Len(m.frames)].ip = ip + 2],
             short |-> code[ip + 1] * 256 + code[ip + 2]]

readConstant(m) ==
    LET r == readByte(m)
        constants == FrameChunk(m).constants
    IN [m |-> r.m,
        value |-> IF Running(m) /\ r.byte >= 0 /\ r.byte < Len(constants)
                  THEN constants[r.byte + 1] ELSE Undefined]

push(m, value) ==
    IF ~Running(m) THEN m
    ELSE IF m.stackTop >= STACK_MAX THEN runtimeError(m, "Stack overflow.")
    ELSE [m EXCEPT !.stack = StackWrite(@, m.stackTop, value), !.stackTop = @ + 1]

\* pop() without its value; the value is peek(m, 0) read before the pop
pop(m) ==
    IF ~Running(m) THEN m
    ELSE IF m.stackTop = 0 THEN runtimeError(m, "Stack underflow.")
    ELSE [m EXCEPT !.stackTop = @ - 1]

RECURSIVE popN(_, _)
popN(m, k) == IF k = 0 THEN m ELSE popN(pop(m), k - 1)

peek(m, distance) == StackRead(m.stack, m.stackTop - 1 - distance)

isTruthy(value) ==
    CASE value.t = "nil" -> FALSE
      [] value.t = "bool" -> value.n = 1
      [] value.t = "num" -> ~(value.d # 0 /\ value.n = 0)
      [] value.t = "str" -> value.s # ""
      [] OTHER -> TRUE

\* allocation of a heap object: the machine after it and the new reference
Alloc(m, obj) ==
    [m |-> [m EXCEPT !.heap = Append(@, obj)], ref |-> Ref(obj.type, Len(m.heap) + 1)]

RECURSIVE JoinStrings(_, _)
JoinStrings(strs, sep) ==
    IF strs = << >> THEN ""
    ELSE IF Len(strs) = 1 THEN strs[1]
    ELSE strs[1] \o sep \o JoinStrings(Tail(strs), sep)

\* stringify throws on undefined (the property read (value as any).type)
RECURSIVE stringifyThrows(_, _)
stringifyThrows(m, value) ==
    CASE value.t = "undefined" -> TRUE
      [] value.t = "array" ->
            \E i \in 1..Len(m.heap[value.n].elements) :
                stringifyThrows(m, m.heap[value.n].elements[i])
      [] value.t = "object" ->
            \E i \in 1..Len(m.heap[value.n].properties) :
                stringifyThrows(m, m.heap[value.n].properties[i].value)
      [] OTHER -> FALSE

RECURSIVE stringify(_, _)
stringify(m, value) ==
    CASE value.t = "nil" -> "wang"
      [] value.t = "bool" -> IF value.n = 1 THEN "jing" ELSE "tej"
      [] value.t = "num" -> NumberToString(value)
      [] value.t = "str" -> value.s
      [] value.t = "array" ->
            LET elements == m.heap[value.n].elements
            IN "[" \o JoinStrings([i \in 1..Len(elements) |-> stringify(m, elements[i])], ", ") \o "]"
      [] value.t = "object" ->
            LET props == m.heap[value.n].properties
            IN "{" \o JoinStrings([i \in 1..Len(props) |->
                        JSString(props[i].key) \o ": " \o stringify(m, props[i].value)], ", ") \o "}"
      [] value.t = "closure" -> "<kian " \o functions[m.heap[value.n].function].name \o ">"
      [] value.t = "function" -> "<kian " \o functions[value.n].name \o ">"
      [] value.t = "class" -> "<klum " \o m.heap[value.n].name \o ">"
      [] value.t = "instance" -> "<" \o m.heap[m.heap[value.n].klass].name \o " kong>"
      [] value.t = "native" -> "<native " \o m.heap[value.n].name \o ">"
      [] OTHER -> "[object Object]"

(***************************************************************************)
(* Upvalues and calls (vm.ts 623-724)                                      *)
(***************************************************************************)
\* captureUpvalue without the lookup in the open-upvalue table: every capture
\* makes a handle of its own (the sharing of C3 rests on the lookup)
captureUpvalueFresh(m, local) ==
    LET id == Len(m.upvals) + 1
    IN [m |-> [m EXCEPT !.upvals = Append(@, [location |-> local, closed |-> FALSE,
                                              value |-> Undefined]),
                        !.openUpvalues = [l \in DOMAIN @ \cup {local} |->
                                             IF l = local THEN id ELSE @[l]]],
        upvalue |-> id]

\* the machine after the capture and the handle (an index of upvals)
captureUpvalue(m, local) ==
    IF local \in DOMAIN m.openUpvalues
    THEN [m |-> m, upvalue |-> m.openUpvalues[local]]
    ELSE LET id == Len(m.upvals) + 1
         IN [m |-> [m EXCEPT !.upvals = Append(@, [location |-> local, closed |-> FALSE,
                                                   value |-> Undefined]),
                             !.openUpvalues = [l \in DOMAIN @ \cup {local} |->
                                                  IF l = local THEN id ELSE @[l]]],
             upvalue |-> id]

\* closeUpvalues that marks the handles closed and keeps them in the table
closeUpvaluesKeeping(m, last) ==
    IF ~Running(m) THEN m
    ELSE LET handles == {m.openUpvalues[l] : l \in {l \in DOMAIN m.openUpvalues : l >= last}}
         IN [m EXCEPT !.upvals = [u \in DOMAIN @ |->
                                    IF u \in handles
                                    THEN [@[u] EXCEPT
                                              !.value = StackRead(m.stack, m.upvals[u].location),
                                              !.closed = TRUE]
                                    ELSE @[u]]]

closeUpvalues(m, last) ==
    IF ~Running(m) THEN m
    ELSE LET closing == {l \in DOMAIN m.openUpvalues : l >= last}
             handles == {m.openUpvalues[l] : l \in closing}
         IN [m EXCEPT !.upvals = [u \in DOMAIN @ |->
                                    IF u \in handles
                                    THEN [@[u] EXCEPT
                                              !.value = StackRead(m.stack, m.upvals[u].location),
                                              !.closed = TRUE]
                                    ELSE @[u]],
                      !.openUpvalues = [l \in DOMAIN @ \ closing |-> @[l]]]

\* callClosure without the comparison of argCount with the arity (the fault
\* of C4 rests on the comparison)
callClosureUnchecked(m, closure, argCount) ==
    IF ~Running(m) THEN m
    ELSE LET m2 == IF Len(m.frames) = FRAMES_MAX
                   THEN runtimeError(m, "Stack overflow.") ELSE m
         IN IF Running(m2)
            THEN [m2 EXCEPT !.frames = Append(@, [closure |-> closure, ip |-> 0,
                                                   slots |-> m2.stackTop - argCount - 1])]
            ELSE m2

\* callClosure without the test of the frame count (the bound of C17 on the
\* frame stack rests on the test)
callClosureUnbounded(m, closure, argCount) ==
    IF ~Running(m) THEN m
    ELSE LET arity == functions[m.heap[closure].function].arity
             m1 == IF argCount # arity
                   THEN runtimeError(m, "Expected " \o ToString(arity) \o " arguments but got "
                                        \o ToString(argCount) \o ".")
                   ELSE m
         IN IF Running(m1)
            THEN [m1 EXCEPT !.frames = Append(@, [closure |-> closure, ip |-> 0,
                                                   slots |-> m1.stackTop - argCount - 1])]
            ELSE m1

callClosure(m, closure, argCount) ==
    IF ~Running(m) THEN m
    ELSE LET arity == functions[m.heap[closure].function].arity
             m1 == IF argCount # arity
                   THEN runtimeError(m, "Expected " \o ToString(arity) \o " arguments but got "
                                        \o ToString(argCount) \o ".")
                   ELSE m
             m2 == IF Running(m1) /\ Len(m1.frames) = FRAMES_MAX
                   THEN runtimeError(m1, "Stack overflow.") ELSE m1
         IN IF Running(m2)
            THEN [m2 EXCEPT !.frames = Append(@, [closure |-> closure, ip |-> 0,
                                                   slots |-> m2.stackTop - argCount - 1])]
            ELSE m2

\* for (i = argCount - 1; i >= 0; i--) args.unshift(peek(i))
RECURSIVE nativeArgs(_, _, _)
nativeArgs(m, i, args) ==
    IF i < 0 THEN args ELSE nativeArgs(m, i - 1, << peek(m, i) >> \o args)

Arg(args, k) == IF k <= Len(args) THEN args[k] ELSE Undefined

\* natives.ts: len and push of createVMNatives; the machine after the call
\* and the value returned
nativeLen(m, args) ==
    LET value == Arg(args, 1)
    IN IF value.t = "str" THEN [m |-> m, value |-> Num(Len(value.s))]
       ELSE IF value.t \in {"nil", "undefined"} THEN [m |-> Crash(m), value |-> Undefined]
       ELSE IF value.t = "array" THEN [m |-> m, value |-> Num(Len(m.heap[value.n].elements))]
       ELSE IF value.t = "object" THEN [m |-> m, value |-> Num(Len(m.heap[value.n].properties))]
       ELSE [m |-> m, value |-> Num(0)]

nativePush(m, args) ==
    LET arr == Arg(args, 1)
        value == Arg(args, 2)
    IN IF arr.t \in {"nil", "undefined"} THEN [m |-> Crash(m), value |-> Undefined]
       ELSE IF arr.t = "array"
       THEN [m |-> [m EXCEPT !.heap[arr.n].elements = Append(@, value)],
             value |-> Num(Len(m.heap[arr.n].elements) + 1)]
       ELSE [m |-> m, value |-> Num(0)]

NativeNames == {"len", "push"}

invokeNative(m, name, args) ==
    IF name = "len" THEN nativeLen(m, args) ELSE nativePush(m, args)

callNative(m, native, argCount) ==
    LET args == nativeArgs(m, argCount - 1, << >>)
        m1 == popN(m, argCount + 1)
        r == invokeNative(m1, m.heap[native].name, args)
    IN IF Running(m1) THEN [r.m EXCEPT !.yield = [native |-> TRUE, push |-> TRUE, value |-> r.value]] ELSE m1

callClass(m, klass, argCount) ==
    LET a == Alloc(m, [type |-> "instance", klass |-> klass, fields |-> << >>])
        m1 == [a.m EXCEPT !.stack = StackWrite(@, m.stackTop - argCount - 1, a.ref)]
        methods == m.heap[klass].methods
    IN IF MapHas(methods, Str("sang"))
       THEN callClosure(m1, MapGet(methods, Str("sang")).n, argCount)
       ELSE IF argCount # 0
       THEN runtimeError(m1, "Expected 0 arguments but got " \o ToString(argCount) \o ".")
       ELSE m1

callBoundMethod(m, bound, argCount) ==
    LET m1 == [m EXCEPT !.stack = StackWrite(@, m.stackTop - argCount - 1, m.heap[bound].receiver)]
    IN callClosure(m1, m.heap[bound].method.n, argCount)

callValue(m, callee, argCount) ==
    IF ~Running(m) THEN m
    ELSE CASE callee.t \in {"nil", "undefined"} -> runtimeError(m, "Can only call functions and classes.")
           [] callee.t = "closure" -> callClosure(m, callee.n, argCount)
           [] callee.t = "native" -> callNative(m, callee.n, argCount)
           [] callee.t = "class" -> callClass(m, callee.n, argCount)
           [] callee.t = "bound_method" -> callBoundMethod(m, callee.n, argCount)
           [] OTHER -> runtimeError(m, "Can only call functions and classes.")

(***************************************************************************)
(* Opcode handlers (vm.ts execute).  Each takes the machine after the      *)
(* opcode byte has been read.                                              *)
(***************************************************************************)
Constant(m) == LET r == readConstant(m) IN push(r.m, r.value)

True(m) == push(m, Bool(TRUE))

False(m) == push(m, Bool(FALSE))

Null(m) == push(m, Nil)

LoadZero(m) == push(m, Num(0))

LoadOne(m) == push(m, Num(1))

Pop(m) == pop(m)

Dup(m) == push(m, peek(m, 0))

\* pop b, pop a, push f(a, b)
Binary(m, F(_, _)) ==
    LET b == peek(m, 0)
        a == peek(m, 1)
    IN push(pop(pop(m)), F(a, b))

AddValues(a, b) ==
    IF a.t = "str" \/ b.t = "str" THEN Str(JSString(a) \o JSString(b)) ELSE JSAdd(a, b)

SubtractValues(a, b) == NumSub(ToNumber(a), ToNumber(b))

MultiplyValues(a, b) == NumMul(ToNumber(a), ToNumber(b))

DivideValues(a, b) == NumDiv(ToNumber(a), ToNumber(b))

ModuloValues(a, b) == NumMod(ToNumber(a), ToNumber(b))

PowerValues(a, b) == NumPow(ToNumber(a), ToNumber(b))

Add(m) == Binary(m, AddValues)

Subtract(m) == Binary(m, SubtractValues)

Multiply(m) == Binary(m, MultiplyValues)

\* DIVIDE without the test of the divisor: the quotient of the host language
\* is pushed (the fault of C14 rests on the test)
DivideUnchecked(m) == Binary(m, DivideValues)

Divide(m) ==
    LET b == peek(m, 0)
        a == peek(m, 1)
        m1 == pop(pop(m))
        m2 == IF b = Num(0) THEN runtimeError(m1, "Division by zero") ELSE m1
    IN push(m2, DivideValues(a, b))

Modulo(m) == Binary(m, ModuloValues)

Power(m) == Binary(m, PowerValues)

Negate(m) == LET a == peek(m, 0) IN push(pop(m), NumNeg(ToNumber(a)))

EqualValues(a, b) == Bool(valuesEqual(a, b))

NotEqualValues(a, b) == Bool(~valuesEqual(a, b))

\* the relational operators of the host language, except on two Strings
LessValues(a, b) == Bool(NumLess(ToNumber(a), ToNumber(b)))

LessEqualValues(a, b) == Bool(NumLessEq(ToNumber(a), ToNumber(b)))

GreaterValues(a, b) == Bool(NumLess(ToNumber(b), ToNumber(a)))

GreaterEqualValues(a, b) == Bool(NumLessEq(ToNumber(b), ToNumber(a)))

Equal(m) == Binary(m, EqualValues)

NotEqual(m) == Binary(m, NotEqualValues)

Greater(m) == Binary(m, GreaterValues)

GreaterEqual(m) == Binary(m, GreaterEqualValues)

Less(m) == Binary(m, LessValues)

LessEqual(m) == Binary(m, LessEqualValues)

Not(m) == LET a == peek(m, 0) IN push(pop(m), Bool(~isTruthy(a)))

GlobalsSet(gl, name, value) ==
    [k \in DOMAIN gl \cup {name} |-> IF k = name THEN value ELSE gl[k]]

DefineGlobal(m) ==
    LET r == readConstant(m)
    IN pop([r.m EXCEPT !.globals = GlobalsSet(@, r.value.s, peek(m, 0))])

GetGlobal(m) ==
    LET r == readConstant(m)
        name == r.value.s
    IN IF name \notin DOMAIN m.globals
       THEN runtimeError(r.m, "Undefined variable '" \o name \o "'")
       ELSE push(r.m, m.globals[name])

\* SET_GLOBAL without the test for the name: an absent name is created (the
\* single creation path of C12 rests on the test)
SetGlobalImplicit(m) ==
    LET r == readConstant(m)
    IN [r.m EXCEPT !.globals = GlobalsSet(@, r.value.s, peek(m, 0))]

SetGlobal(m) ==
    LET r == readConstant(m)
        name == r.value.s
    IN IF name \notin DOMAIN m.globals
       THEN runtimeError(r.m, "Undefined variable '" \o name \o "'")
       ELSE [r.m EXCEPT !.globals = GlobalsSet(@, name, peek(m, 0))]

GetLocal(m) ==
    LET r == readByte(m)
    IN push(r.m, StackRead(m.stack, currentFrame(m).slots + r.byte))

SetLocal(m) ==
    LET r == readByte(m)
    IN [r.m EXCEPT !.stack = StackWrite(@, currentFrame(m).slots + r.byte, peek(m, 0))]

IncLocal(m) ==
    LET r == readByte(m)
        slot == currentFrame(m).slots + r.byte
        val == StackRead(m.stack, slot)
    IN IF val.t = "num"
       THEN [r.m EXCEPT !.stack = StackWrite(@, slot, NumAdd(val, Num(1)))]
       ELSE runtimeError(r.m, "Can only increment numbers.")

\* frame.closure.upvalues[slot]; 0 when the closure has no such upvalue
FrameUpvalue(m, slot) ==
    LET ups == m.heap[currentFrame(m).closure].upvalues
    IN IF slot >= 0 /\ slot < Len(ups) THEN ups[slot + 1] ELSE 0

GetUpvalue(m) ==
    LET r == readByte(m)
        u == FrameUpvalue(m, r.byte)
    IN IF u = 0 THEN Crash(r.m)
       ELSE IF m.upvals[u].closed THEN push(r.m, m.upvals[u].value)
       ELSE push(r.m, StackRead(m.stack, m.upvals[u].location))

SetUpvalue(m) ==
    LET r == readByte(m)
        u == FrameUpvalue(m, r.byte)
    IN IF u = 0 THEN Crash(r.m)
       ELSE IF m.upvals[u].closed THEN [r.m EXCEPT !.upvals[u].value = peek(m, 0)]
       ELSE [r.m EXCEPT !.stack = StackWrite(@, m.upvals[u].location, peek(m, 0))]

CloseUpvalue(m) == pop(closeUpvalues(m, m.stackTop - 1))

Jump(m) ==
    LET r == readShort(m)
    IN [r.m EXCEPT !.frames[Len(m.frames)].ip = @ + r.short]

\* JUMP_IF_FALSE with the test inverted (the short circuit of C10 rests on
\* the test)
JumpIfFalseInverted(m) ==
    LET r == readShort(m)
    IN IF isTruthy(peek(m, 0)) THEN [r.m EXCEPT !.frames[Len(m.frames)].ip = @ + r.short]
       ELSE r.m

JumpIfFalse(m) ==
    LET r == readShort(m)
    IN IF ~isTruthy(peek(m, 0)) THEN [r.m EXCEPT !.frames[Len(m.frames)].ip = @ + r.short]
       ELSE r.m

JumpIfTrue(m) ==
    LET r == readShort(m)
    IN IF isTruthy(peek(m, 0)) THEN [r.m EXCEPT !.frames[Len(m.frames)].ip = @ + r.short]
       ELSE r.m

Loop(m) ==
    LET r == readShort(m)
    IN [r.m EXCEPT !.frames[Len(m.frames)].ip = @ - r.short]

Call(m) ==
    LET r == readByte(m)
    IN callValue(r.m, peek(m, r.byte), r.byte)

\* the loop of OP_CLOSURE over the upvalue pairs: the machine and the
\* handles collected so far (0 stands for an undefined entry)
RECURSIVE closureUpvalues(_, _, _)
closureUpvalues(m, count, acc) ==
    IF count = 0 THEN [m |-> m, upvalues |-> acc]
    ELSE LET r1 == readByte(m)
             r2 == readByte(r1.m)
             cap == captureUpvalue(r2.m, currentFrame(m).slots + r2.byte)
         IN IF r1.byte = 1
            THEN closureUpvalues(cap.m, count - 1, Append(acc, cap.upvalue))
            ELSE closureUpvalues(r2.m, count - 1, Append(acc, FrameUpvalue(m, r2.byte)))

Closure(m) ==
    LET r == readConstant(m)
        func == r.value.n
        u == closureUpvalues(r.m, functions[func].upvalueCount, << >>)
        a == Alloc(u.m, [type |-> "closure", function |-> func, upvalues |-> u.upvalues])
    IN push(a.m, a.ref)

Return(m) ==
    LET res == peek(m, 0)
        frame == currentFrame(m)
        m1 == closeUpvalues(pop(m), frame.slots)
        m2 == IF Running(m1) THEN [m1 EXCEPT !.frames = SubSeq(@, 1, Len(@) - 1)] ELSE m1
    IN IF ~Running(m2) THEN m2
       ELSE IF m2.frames = << >>
       THEN LET m3 == pop(m2)
            IN IF Running(m3) THEN [m3 EXCEPT !.status = "done", !.result = res] ELSE m3
       ELSE push([m2 EXCEPT !.stackTop = frame.slots], res)

Class(m) ==
    LET r == readConstant(m)
        a == Alloc(r.m, [type |-> "class", name |-> r.value.s, methods |-> << >>])
    IN push(a.m, a.ref)

GetProperty(m) ==
    LET instance == peek(m, 0)
        bad == JSFalsy(instance) \/ instance.t \notin {"instance", "object"}
        r == readConstant(IF bad THEN runtimeError(m, "Only instances and objects have properties.")
                          ELSE m)
        name == r.value
    IN IF ~Running(r.m) THEN r.m
       ELSE IF instance.t = "instance" /\ MapHas(m.heap[instance.n].fields, name)
       THEN push(pop(r.m), MapGet(m.heap[instance.n].fields, name))
       ELSE IF instance.t = "instance" /\ MapHas(m.heap[m.heap[instance.n].klass].methods, name)
       THEN LET a == Alloc(pop(r.m), [type |-> "bound_method", receiver |-> instance,
                                method |-> MapGet(m.heap[m.heap[instance.n].klass].methods, name)])
            IN push(a.m, a.ref)
       ELSE IF instance.t = "object" /\ MapHas(m.heap[instance.n].properties, name)
       THEN push(pop(r.m), MapGet(m.heap[instance.n].properties, name))
       ELSE runtimeError(r.m, "Undefined property '" \o JSString(name) \o "'.")

SetProperty(m) ==
    LET instance == peek(m, 1)
        bad == JSFalsy(instance) \/ instance.t \notin {"instance", "object"}
        r == readConstant(IF bad THEN runtimeError(m, "Only instances and objects have fields.")
                          ELSE m)
        name == r.value
        value == peek(m, 0)
    IN IF ~Running(r.m) THEN r.m
       ELSE LET m1 == IF instance.t = "instance"
                      THEN [r.m EXCEPT !.heap[instance.n].fields = MapSet(@, name, value)]
                      ELSE [r.m EXCEPT !.heap[instance.n].properties = MapSet(@, name, value)]
            IN push(pop(pop(m1)), value)

\* klass.methods.set throws a TypeError when peek(1) is not a Class
Method(m) ==
    LET r == readConstant(m)
        method == peek(m, 0)
        klass == peek(m, 1)
    IN IF klass.t # "class" THEN Crash(r.m)
       ELSE pop([r.m EXCEPT !.heap[klass.n].methods = MapSet(@, r.value, method)])

\* for (i = count - 1; i >= 0; i--) elements.unshift(peek(i))
RECURSIVE arrayElements(_, _, _)
arrayElements(m, i, elements) ==
    IF i < 0 THEN elements ELSE arrayElements(m, i - 1, << peek(m, i) >> \o elements)

Array(m) ==
    LET r == readByte(m)
        elements == arrayElements(m, r.byte - 1, << >>)
        a == Alloc(popN(r.m, r.byte), [type |-> "array", elements |-> elements])
    IN push(a.m, a.ref)

\* for (i = count - 1; i >= 0; i--) properties.set(peek(2i + 1), peek(2i))
\* the property loop run from the newest pair to the oldest
RECURSIVE objectPropertiesNewestFirst(_, _, _)
objectPropertiesNewestFirst(m, i, acc) ==
    IF i < 0 THEN acc
    ELSE MapSet(objectPropertiesNewestFirst(m, i - 1, acc), peek(m, i * 2 + 1), peek(m, i * 2))

RECURSIVE objectProperties(_, _, _)
objectProperties(m, i, acc) ==
    IF i < 0 THEN acc
    ELSE objectProperties(m, i - 1, MapSet(acc, peek(m, i * 2 + 1), peek(m, i * 2)))

Object(m) ==
    LET r == readByte(m)
        properties == objectProperties(m, r.byte - 1, << >>)
        a == Alloc(popN(r.m, r.byte * 2), [type |-> "object", properties |-> properties])
    IN push(a.m, a.ref)

IsIndex(index, len) == index.t = "num" /\ index.d = 1 /\ index.n >= 0 /\ index.n < len

NullishToNil(v) == IF v.t = "undefined" THEN Nil ELSE v

GetIndex(m) ==
    LET index == peek(m, 0)
        object == peek(m, 1)
        m1 == pop(pop(m))
    IN CASE object.t \in {"nil", "undefined"} -> Crash(m1)
         [] object.t = "array" ->
                LET elements == m.heap[object.n].elements
                IN push(m1, IF IsIndex(index, Len(elements))
                            THEN NullishToNil(elements[index.n + 1])
                            ELSE IF index = Str("length") THEN Num(Len(elements)) ELSE Nil)
         [] object.t = "object" ->
                push(m1, NullishToNil(MapGet(m.heap[object.n].properties, Str(JSString(index)))))
         [] object.t = "str" ->
                push(m1, IF IsIndex(index, Len(object.s))
                         THEN Str(SubSeq(object.s, index.n + 1, index.n + 1))
                         ELSE IF index = Str("length") THEN Num(Len(object.s)) ELSE Str(""))
         [] OTHER -> runtimeError(m1, "Can only index arrays, objects, and strings.")

\* arr.elements[index] = value for an index that is a non-negative integer;
\* any other key sets a property of the host array and leaves the elements
ArrayStore(elements, index, value) ==
    IF ~(index.t = "num" /\ index.d = 1 /\ index.n >= 0) THEN elements
    ELSE StackWrite(elements, index.n, value)

SetIndex(m) ==
    LET value == peek(m, 0)
        index == peek(m, 1)
        object == peek(m, 2)
        m1 == pop(pop(pop(m)))
    IN IF ~Running(m1) THEN m1
       ELSE CASE object.t \in {"nil", "undefined"} -> Crash(m1)
              [] object.t = "array" ->
                    push([m1 EXCEPT !.heap[object.n].elements = ArrayStore(@, index, value)], value)
              [] object.t = "object" ->
                    push([m1 EXCEPT !.heap[object.n].properties =
                                        MapSet(@, Str(JSString(index)), value)], value)
              [] OTHER -> runtimeError(m1, "Can only set index on arrays and objects.")

PrintValue(m) ==
    LET value == peek(m, 0)
        m1 == pop(m)
    IN IF ~Running(m1) THEN m1
       ELSE IF stringifyThrows(m1, value) THEN Crash(m1)
       ELSE [m1 EXCEPT !.output = Append(@, stringify(m1, value))]

UnknownOpcode(m, instruction) == runtimeError(m, "Unknown opcode: " \o ToString(instruction))

(***************************************************************************)
(* Inputs.  A source input is a Program handed to compile(); its top-level *)
(* Function is then handed to run().  A chunk input is a table of          *)
(* Functions the host built itself (run() takes any Function); the last    *)
(* one is the one handed to run().  An input with both is the compiled     *)
(* table followed by host-built Functions whose constants may refer to     *)
(* compiled ones.                                                          *)
(***************************************************************************)
RECURSIVE Zeros(_)
Zeros(k) == IF k = 0 THEN << >> ELSE << 0 >> \o Zeros(k - 1)

\* a host-built Function
Fn(name, arity, upvalueCount, constants, code) ==
    [name |-> name, arity |-> arity, upvalueCount |-> upvalueCount,
     chunk |-> [code |-> code, constants |-> constants, lines |-> Zeros(Len(code)), name |-> name]]

Source(name, body) == [name |-> name, program |-> Program(body), extra |-> << >>]

Chunks(name, fns) == [name |-> name, program |-> NoNode, extra |-> fns]

Linked(name, body, fns) == [name |-> name, program |-> Program(body), extra |-> fns]

\* the closure counter of the README (make, c, da c(), da c())
ClosureCounterProgram ==
    Source("closure-counter", <<
        FunctionStmt("make", << >>, BlockStmt(<<
            VarStmt("n", Literal(Num(0))),
            ReturnStmt(FunctionExpr(<< >>, BlockStmt(<<
                ExprStmt(AssignExpr(Variable("n"),
                                    BinaryExpr(Variable("n"), "+", Literal(Num(1))))),
                ReturnStmt(Variable("n")) >>))) >>)),
        VarStmt("c", CallExpr(Variable("make"), << >>)),
        PrintStmt(<< CallExpr(Variable("c"), << >>) >>),
        PrintStmt(<< CallExpr(Variable("c"), << >>) >>) >>)

\* E4: class Box with initializer and method
ClassProgram ==
    Source("class-box", <<
        ClassStmt("Box", <<
            FunctionStmt("sang", << Parameter("v") >>, BlockStmt(<<
                ExprStmt(AssignExpr(MemberExpr(ThisExpr, "v"), Variable("v"))) >>)),
            FunctionStmt("get", << >>, BlockStmt(<<
                ReturnStmt(MemberExpr(ThisExpr, "v")) >>)) >>),
        VarStmt("b", NewExpr(Variable("Box"), << Literal(Num(7)) >>)),
        PrintStmt(<< CallExpr(MemberExpr(Variable("b"), "get"), << >>) >>) >>)

\* o.p = 5 on an object literal, and on an instance of a class without methods
MemberAssignPrograms == <<
    Source("member-assign-object", <<
        VarStmt("o", ObjectExpr(<< >>)),
        ExprStmt(AssignExpr(MemberExpr(Variable("o"), "p"), Literal(Num(5)))),
        PrintStmt(<< MemberExpr(Variable("o"), "p") >>) >>),
    Source("member-assign-instance", <<
        ClassStmt("K", << >>),
        VarStmt("o", NewExpr(Variable("K"), << >>)),
        ExprStmt(AssignExpr(MemberExpr(Variable("o"), "p"), Literal(Num(5)))),
        PrintStmt(<< MemberExpr(Variable("o"), "p") >>) >> ) >>

\* a[0] = 9 on an array, o["k"] = 9 on an object
IndexAssignPrograms == <<
    Source("index-assign-array", <<
        VarStmt("a", ArrayExpr(<< Literal(Num(1)), Literal(Num(2)) >>)),
        ExprStmt(AssignExpr(IndexExpr(Variable("a"), Literal(Num(0))), Literal(Num(9)))),
        PrintStmt(<< IndexExpr(Variable("a"), Literal(Num(0))) >>) >>),
    Source("index-assign-object", <<
        VarStmt("o", ObjectExpr(<< >>)),
        ExprStmt(AssignExpr(IndexExpr(Variable("o"), Literal(Str("k"))), Literal(Num(9)))),
        PrintStmt(<< IndexExpr(Variable("o"), Literal(Str("k"))) >>) >>) >>

\* the largest array literal
MaxElements == 3

\* da [1, .., n]
ArrayProgram(n) ==
    Source("array-literal",
           << PrintStmt(<< ArrayExpr([k \in 1..n |-> Literal(Num(k))]) >>) >>)

ArrayPrograms == [n \in 1..(MaxElements + 1) |-> ArrayProgram(n - 1)]

\* ao a = [1]; da push(a, 5); da a; da len(a)
NativeCallProgram ==
    Source("native-call", <<
        VarStmt("a", ArrayExpr(<< Literal(Num(1)) >>)),
        PrintStmt(<< CallExpr(Variable("push"), << Variable("a"), Literal(Num(5)) >>) >>),
        PrintStmt(<< Variable("a") >>),
        PrintStmt(<< CallExpr(Variable("len"), << Variable("a") >>) >>) >>)

\* the left operands and conditions of the short-circuit programs
Operands == << Bool(TRUE), Bool(FALSE), Nil, Num(0), Num(1), Num(2), Str(""), Str("s") >>

\* ao x = 0; ao r = A op (x = 5); da r; da x
LogicalProgram(operand, operator) ==
    Source(operator, <<
        VarStmt("x", Literal(Num(0))),
        VarStmt("r", LogicalExpr(Literal(operand), operator,
                                 AssignExpr(Variable("x"), Literal(Num(5))))),
        PrintStmt(<< Variable("r") >>),
        PrintStmt(<< Variable("x") >>) >>)

\* ao x = 0; ao y = 0; ao r = A ? (x = 5) : (y = 7); da r; da x; da y
TernaryProgram(operand) ==
    Source("?:", <<
        VarStmt("x", Literal(Num(0))),
        VarStmt("y", Literal(Num(0))),
        VarStmt("r", TernaryExpr(Literal(operand),
                                 AssignExpr(Variable("x"), Literal(Num(5))),
                                 AssignExpr(Variable("y"), Literal(Num(7))))),
        PrintStmt(<< Variable("r") >>),
        PrintStmt(<< Variable("x") >>),
        PrintStmt(<< Variable("y") >>) >>)

ShortCircuitPrograms ==
    [k \in 1..Len(Operands) |-> LogicalProgram(Operands[k], "&&")]
    \o [k \in 1..Len(Operands) |-> LogicalProgram(Operands[k], "||")]
    \o [k \in 1..Len(Operands) |-> TernaryProgram(Operands[k])]

\* kian inc() { n = n + 1; kuun n } with n an upvalue
IncFunction ==
    Fn("inc", 0, 1, << >>,
       << OP_GET_UPVALUE, 0, OP_LOAD_ONE, OP_ADD, OP_SET_UPVALUE, 0, OP_POP,
          OP_GET_UPVALUE, 0, OP_RETURN >>)

\* kian get() { kuun n } with n an upvalue
GetFunction == Fn("get", 0, 1, << >>, << OP_GET_UPVALUE, 0, OP_RETURN >>)

\* kian via() { kuun kian() { kuun n } } with n an upvalue of via: the inner
\* closure takes its handle from the upvalues of via
ViaFunction ==
    Fn("via", 0, 1, << FunctionVal(2) >>, << OP_CLOSURE, 0, 0, 0, OP_RETURN >>)

\* kian make() { ao n = 0; ao inc = ..; ao get = ..; da inc(); da get();
\*               n = 10; da get(); ao via = ..; da via()();
\*               the closures inc and get are published as globals }
MakeFunction ==
    Fn("make", 0, 0,
       << FunctionVal(1), FunctionVal(2), Str("inc"), Str("get"), Num(10), FunctionVal(3) >>,
       << OP_LOAD_ZERO,
          OP_CLOSURE, 0, 1, 1,
          OP_CLOSURE, 1, 1, 1,
          OP_GET_LOCAL, 2, OP_CALL, 0, OP_PRINT,
          OP_GET_LOCAL, 3, OP_CALL, 0, OP_PRINT,
          OP_CONSTANT, 4, OP_SET_LOCAL, 1, OP_POP,
          OP_GET_LOCAL, 3, OP_CALL, 0, OP_PRINT,
          OP_CLOSURE, 5, 1, 1,
          OP_GET_LOCAL, 4, OP_CALL, 0, OP_CALL, 0, OP_PRINT,
          OP_GET_LOCAL, 2, OP_DEFINE_GLOBAL, 2,
          OP_GET_LOCAL, 3, OP_DEFINE_GLOBAL, 3,
          OP_NULL, OP_RETURN >>)

\* make(); da inc(); da get(); make(); da get();
\* { ao t = 5; ao g = kian() { kuun t }; g is published } da g()
\* { ao t = 6; ao h = kian() { kuun t }; h is published } da h(); da g()
\* the two blocks keep t in the same slot of the script's frame
SharingScript ==
    Fn("<script>", 0, 0,
       << FunctionVal(4), Str("make"), Str("inc"), Str("get"), Num(5), FunctionVal(2), Str("g"),
          Num(6), Str("h") >>,
       << OP_CLOSURE, 0, OP_DEFINE_GLOBAL, 1,
          OP_GET_GLOBAL, 1, OP_CALL, 0, OP_POP,
          OP_GET_GLOBAL, 2, OP_CALL, 0, OP_PRINT,
          OP_GET_GLOBAL, 3, OP_CALL, 0, OP_PRINT,
          OP_GET_GLOBAL, 1, OP_CALL, 0, OP_POP,
          OP_GET_GLOBAL, 3, OP_CALL, 0, OP_PRINT,
          OP_CONSTANT, 4,
          OP_CLOSURE, 5, 1, 1,
          OP_GET_LOCAL, 2, OP_DEFINE_GLOBAL, 6,
          OP_POP, OP_CLOSE_UPVALUE,
          OP_GET_GLOBAL, 6, OP_CALL, 0, OP_PRINT,
          OP_CONSTANT, 7,
          OP_CLOSURE, 5, 1, 1,
          OP_GET_LOCAL, 2, OP_DEFINE_GLOBAL, 8,
          OP_POP, OP_CLOSE_UPVALUE,
          OP_GET_GLOBAL, 8, OP_CALL, 0, OP_PRINT,
          OP_GET_GLOBAL, 6, OP_CALL, 0, OP_PRINT,
          OP_NULL, OP_RETURN >>)

UpvalueSharingChunks ==
    Chunks("upvalue-sharing",
           << IncFunction, GetFunction, ViaFunction, MakeFunction, SharingScript >>)

\* the largest argument count of the arity inputs
MaxArgs == 2

\* kian one(v) { da v }
OneFunction == Fn("one", 1, 0, << >>, << OP_GET_LOCAL, 1, OP_PRINT, OP_NULL, OP_RETURN >>)

RECURSIVE Ones(_)
Ones(k) == IF k = 0 THEN << >> ELSE << OP_LOAD_ONE >> \o Ones(k - 1)

\* one(1, .., 1) with n arguments
ClosureCallChunks(n) ==
    Chunks("closure-call", <<
        OneFunction,
        Fn("<script>", 0, 0, << FunctionVal(1) >>,
           << OP_CLOSURE, 0 >> \o Ones(n) \o << OP_CALL, n, OP_POP, OP_NULL, OP_RETURN >>) >>)

\* klum K { one(v) { da v } }; K().one(1, .., 1) with n arguments
MethodCallChunks(n) ==
    Chunks("method-call", <<
        OneFunction,
        Fn("<script>", 0, 0, << Str("K"), FunctionVal(1), Str("one") >>,
           << OP_CLASS, 0, OP_CLOSURE, 1, OP_METHOD, 2, OP_CALL, 0, OP_GET_PROPERTY, 2 >>
           \o Ones(n) \o << OP_CALL, n, OP_POP, OP_NULL, OP_RETURN >>) >>)

ArityChunks ==
    [k \in 1..(MaxArgs + 1) |-> ClosureCallChunks(k - 1)]
    \o [k \in 1..(MaxArgs + 1) |-> MethodCallChunks(k - 1)]

\* the bodies of the initializer of the initializer inputs
InitializerBodies ==
    << << >>,
       << ReturnStmt(NoNode) >>,
       << ReturnStmt(Literal(Num(5))) >>,
       << ReturnStmt(Variable("v")) >>,
       << ExprStmt(Variable("v")) >> >>

\* klum K { sang(v) { body } } compiled; the Function of sang (the second of
\* the compilation) is then installed by CLASS, CLOSURE, METHOD and K(1) is
\* called and printed
InitializerInput(body) ==
    Linked("initializer",
           << ClassStmt("K", << FunctionStmt("sang", << Parameter("v") >>, BlockStmt(body)) >>) >>,
           << Fn("<driver>", 0, 0, << Str("K"), FunctionVal(2), Str("sang") >>,
                 << OP_CLASS, 0, OP_CLOSURE, 1, OP_METHOD, 2,
                    OP_LOAD_ONE, OP_CALL, 1, OP_PRINT, OP_NULL, OP_RETURN >>) >>)

InitializerInputs == [k \in 1..Len(InitializerBodies) |-> InitializerInput(InitializerBodies[k])]

\* statements and operators not used by the inputs above
TourProgram ==
    Source("tour", <<
        VarStmt("a", Literal(Num(6))),
        VarStmt("b", Literal(Num(2))),
        PrintStmt(<< BinaryExpr(Variable("a"), "-", Variable("b")),
                     BinaryExpr(Variable("a"), "*", Variable("b")),
                     BinaryExpr(Variable("a"), "/", Variable("b")),
                     BinaryExpr(Variable("a"), "%", Variable("b")),
                     BinaryExpr(Variable("a"), "**", Variable("b")),
                     UnaryExpr("-", Variable("a")),
                     BinaryExpr(Variable("a"), "==", Variable("b")),
                     BinaryExpr(Variable("a"), "!=", Variable("b")),
                     BinaryExpr(Variable("a"), ">", Variable("b")),
                     BinaryExpr(Variable("a"), ">=", Variable("b")),
                     BinaryExpr(Variable("a"), "<", Variable("b")),
                     BinaryExpr(Variable("a"), "<=", Variable("b")),
                     UnaryExpr("!", Variable("a")),
                     BinaryExpr(Variable("a"), "+", Variable("b")) >>),
        VarStmt("i", Literal(Num(0))),
        WhileStmt(BinaryExpr(Variable("i"), "<", Literal(Num(2))), BlockStmt(<<
            ExprStmt(AssignExpr(Variable("i"), BinaryExpr(Variable("i"), "+", Literal(Num(1)))))
            >>)),
        SwitchStmt(Variable("a"),
                   << SwitchCase(Literal(Num(6)), BlockStmt(<< PrintStmt(<< Literal(Str("six")) >>) >>)) >>,
                   NoNode),
        IfStmt(BinaryExpr(Variable("a"), ">", Variable("b")),
               BlockStmt(<< PrintStmt(<< Literal(Bool(TRUE)) >>) >>),
               BlockStmt(<< PrintStmt(<< Literal(Bool(FALSE)) >>) >>)),
        PrintStmt(<< IndexExpr(ArrayExpr(<< Literal(Num(7)), Literal(Num(8)) >>),
                               Literal(Num(1))) >>),
        BlockStmt(<< VarStmt("t", Literal(Num(1))),
                     ExprStmt(AssignExpr(Variable("t"), Literal(Num(2)))),
                     PrintStmt(<< Variable("t") >>) >>),
        ForStmt("k", Literal(Num(0)), Literal(Num(2)), NoNode,
                BlockStmt(<< PrintStmt(<< Variable("k") >>) >>)) >>)

\* instructions the compiler never emits, ending in a byte that is no
\* instruction of the machine
TourChunks ==
    Chunks("tour-chunk", <<
        Fn("<script>", 0, 0, << >>,
           << OP_LOAD_ONE, OP_DUP, OP_NOT_EQUAL, OP_PRINT,
              OP_LOAD_ZERO, OP_INC_LOCAL, 1, OP_GET_LOCAL, 1, OP_PRINT,
              49 >>) >>)

\* ao x = 1; x = 2; y = 3; da x with y never declared, and da q with q never
\* declared
UndefinedGlobalPrograms == <<
    Source("undefined-set", <<
        VarStmt("x", Literal(Num(1))),
        ExprStmt(AssignExpr(Variable("x"), Literal(Num(2)))),
        ExprStmt(AssignExpr(Variable("y"), Literal(Num(3)))),
        PrintStmt(<< Variable("x") >>) >>),
    Source("undefined-get", <<
        PrintStmt(<< Variable("q") >>) >>) >>

\* the operands that are not Numbers, and the binary operators of arithmetic
NonNumbers == << Nil, Bool(TRUE), Str("s") >>

ArithmeticOperators == << "+", "-", "*", "/", "%", "**" >>

\* da L op 2 for each operand L that is no Number, and da -L
NonNumberPrograms ==
    [k \in 1..(Len(NonNumbers) * Len(ArithmeticOperators)) |->
        Source("non-number-binary", <<
            PrintStmt(<< BinaryExpr(Literal(NonNumbers[((k - 1) % Len(NonNumbers)) + 1]),
                                    ArithmeticOperators[((k - 1) \div Len(NonNumbers)) + 1],
                                    Literal(Num(2))) >>) >>)]
    \o [k \in 1..Len(NonNumbers) |->
        Source("non-number-negate", <<
            PrintStmt(<< UnaryExpr("-", Literal(NonNumbers[k])) >>) >>)]

\* da 1 / 0; da 7 with the divisor a literal, a variable, a folded
\* difference, and 0 / 0
DivisionByZeroPrograms == <<
    Source("division-by-zero", <<
        PrintStmt(<< BinaryExpr(Literal(Num(1)), "/", Literal(Num(0))) >>),
        PrintStmt(<< Literal(Num(7)) >>) >>),
    Source("division-by-zero", <<
        VarStmt("z", Literal(Num(0))),
        PrintStmt(<< BinaryExpr(Literal(Num(5)), "/", Variable("z")) >>),
        PrintStmt(<< Literal(Num(7)) >>) >>),
    Source("division-by-zero", <<
        PrintStmt(<< BinaryExpr(Literal(Num(1)), "/",
                                BinaryExpr(Literal(Num(2)), "-", Literal(Num(2)))) >>),
        PrintStmt(<< Literal(Num(7)) >>) >>),
    Source("division-by-zero", <<
        PrintStmt(<< BinaryExpr(Literal(Num(0)), "/", Literal(Num(0))) >>),
        PrintStmt(<< Literal(Num(7)) >>) >>) >>

\* the node with its source line (Node.line)
AtLine(node, line) ==
    [f \in DOMAIN node \cup {"line"} |-> IF f = "line" THEN line ELSE node[f]]

\* line 1: ao z = 0
\* line 3: da 5 / z
FaultLineProgram ==
    Source("fault-line", <<
        AtLine(VarStmt("z", AtLine(Literal(Num(0)), 1)), 1),
        AtLine(PrintStmt(<< AtLine(BinaryExpr(AtLine(Literal(Num(5)), 3), "/",
                                              AtLine(Variable("z"), 3)), 3) >>), 3) >>)

\* the code that pushes a target of each kind that is no Array and no Object
IndexTargets == <<
    << OP_NULL >>,
    << OP_TRUE >>,
    << OP_LOAD_ONE >>,
    << OP_CONSTANT, 0 >>,
    << OP_CLOSURE, 1 >>,
    << OP_CLASS, 2 >>,
    << OP_CLASS, 2, OP_CALL, 0 >> >>

\* target[0] read, and target[0] = 1
IndexTargetChunks(k, write) ==
    Chunks("index-target", <<
        OneFunction,
        Fn("<script>", 0, 0, << Str("s"), FunctionVal(1), Str("K") >>,
           IndexTargets[k]
           \o (IF write THEN << OP_LOAD_ZERO, OP_LOAD_ONE, OP_SET_INDEX >>
               ELSE << OP_LOAD_ZERO, OP_GET_INDEX >>)
           \o << OP_POP, OP_NULL, OP_RETURN >>) >>)

\* da null[0]
IndexNullProgram ==
    Source("index-null", << PrintStmt(<< IndexExpr(Literal(Nil), Literal(Num(0))) >>) >>)

IndexTargetInputs ==
    [k \in 1..Len(IndexTargets) |-> IndexTargetChunks(k, FALSE)]
    \o [k \in 1..Len(IndexTargets) |-> IndexTargetChunks(k, TRUE)]
    \o << IndexNullProgram >>

\* kian f() { kuun f() }  f()
RecursionChunks ==
    Chunks("recursion", <<
        Fn("f", 0, 0, << Str("f") >>, << OP_GET_GLOBAL, 0, OP_CALL, 0, OP_RETURN >>),
        Fn("<script>", 0, 0, << FunctionVal(1), Str("f") >>,
           << OP_CLOSURE, 0, OP_DEFINE_GLOBAL, 1,
              OP_GET_GLOBAL, 1, OP_CALL, 0, OP_POP, OP_NULL, OP_RETURN >>) >>)

\* the pushes of one round of the push loop
PushesPerRound == 16

RECURSIVE Repeat(_, _)
Repeat(code, k) == IF k = 0 THEN << >> ELSE code \o Repeat(code, k - 1)

\* a loop that pushes 1 again and again and pops nothing
PushLoopChunks ==
    Chunks("push-loop", <<
        Fn("<script>", 0, 0, << >>,
           Repeat(<< OP_LOAD_ONE >>, PushesPerRound)
           \o << OP_LOOP, 0, PushesPerRound + 3, OP_NULL, OP_RETURN >>) >>)

\* the Function of the fresh run: da "fresh"; kuun 7
FreshFunction ==
    Fn("<fresh>", 0, 0, << Str("fresh"), Num(7) >>,
       << OP_CONSTANT, 0, OP_PRINT, OP_CONSTANT, 1, OP_RETURN >>)

\* what stands after the instruction the first run halts in: da "stale"
StaleCode == << OP_CONSTANT, 1, OP_PRINT, OP_NULL, OP_RETURN >>

\* A first run that faults at top level (a read of an undefined global), one
\* that faults inside a called function, one that faults on a full frame
\* stack and one that ends normally; the host holds a fresh Function.
RerunInputs == <<
    Chunks("rerun-top", <<
        FreshFunction,
        Fn("<script>", 0, 0, << Str("missing"), Str("stale") >>,
           << OP_GET_GLOBAL, 0, OP_POP >> \o StaleCode) >>),
    Chunks("rerun-nested", <<
        FreshFunction,
        Fn("g", 0, 0, << Str("missing"), Str("stale") >>,
           << OP_GET_GLOBAL, 0, OP_POP >> \o StaleCode),
        Fn("<script>", 0, 0, << FunctionVal(2), Str("stale") >>,
           << OP_CLOSURE, 0, OP_CALL, 0, OP_POP >> \o StaleCode) >>),
    Chunks("rerun-overflow", <<
        FreshFunction,
        Fn("f", 0, 0, << Str("f") >>, << OP_GET_GLOBAL, 0, OP_CALL, 0, OP_RETURN >>),
        Fn("<script>", 0, 0, << FunctionVal(2), Str("f") >>,
           << OP_CLOSURE, 0, OP_DEFINE_GLOBAL, 1,
              OP_GET_GLOBAL, 1, OP_CALL, 0, OP_POP, OP_NULL, OP_RETURN >>) >>),
    Chunks("rerun-clean", <<
        FreshFunction,
        Fn("<script>", 0, 0, << Str("first") >>,
           << OP_CONSTANT, 0, OP_PRINT, OP_NULL, OP_RETURN >>) >>) >>

\* the Function of the second run: da "second"; kuun 7
ConcurrentFunction ==
    Fn("<concurrent>", 0, 0, << Str("second"), Num(7) >>,
       << OP_CONSTANT, 0, OP_PRINT, OP_CONSTANT, 1, OP_RETURN >>)

\* Host code that calls run() twice on one VM without awaiting the first
\* promise.  The first script is  da len("abc")  in the one input and
\* kian h() { kuun 1 }  da h()  in the other.
ConcurrentInputs == <<
    Chunks("concurrent-native", <<
        ConcurrentFunction,
        Fn("<script>", 0, 0, << Str("len"), Str("abc") >>,
           << OP_GET_GLOBAL, 0, OP_CONSTANT, 1, OP_CALL, 1, OP_PRINT,
              OP_NULL, OP_RETURN >>) >>),
    Chunks("concurrent-closure", <<
        ConcurrentFunction,
        Fn("h", 0, 0, << >>, << OP_LOAD_ONE, OP_RETURN >>),
        Fn("<script>", 0, 0, << FunctionVal(2) >>,
           << OP_CLOSURE, 0, OP_CALL, 0, OP_PRINT, OP_NULL, OP_RETURN >>) >>) >>

\* a set as a sequence, in some order
RECURSIVE SetToSeq(_)
SetToSeq(S) ==
    IF S = {} THEN << >>
    ELSE LET x == CHOOSE y \in S : TRUE IN << x >> \o SetToSeq(S \ {x})

\* the longest list of cases of the switch inputs
MaxCases == 2

\* the values of the cases; the discriminants add one value that no case has
CaseValues == {1, 2}

Discriminants == CaseValues \cup {3}

MarkerName(prefix, k) == prefix \o ToString(k)

\* ao e1 = null; ..; ao en = null; ao b1 = null; ..; ao bn = null
Markers(n) ==
    [k \in 1..(2 * n) |->
        IF k <= n THEN VarStmt(MarkerName("e", k), Literal(Nil))
        ELSE VarStmt(MarkerName("b", k - n), Literal(Nil))]

MarkStmt(name) == ExprStmt(AssignExpr(Variable(name), Literal(Num(1))))

\* switch (d) { case (e1 = v1): { b1 = 1 } .. case (en = vn): { bn = 1 }
\*              default: { bd = 1 } }  ao z = 0
\* ek is written when the value of case k is evaluated, bk when its body runs
SwitchProgram(d, values, withDefault) ==
    Source("switch",
           Markers(Len(values))
           \o << VarStmt("bd", Literal(Nil)),
                 SwitchStmt(Literal(Num(d)),
                            [k \in 1..Len(values) |->
                                SwitchCase(AssignExpr(Variable(MarkerName("e", k)),
                                                      Literal(Num(values[k]))),
                                           BlockStmt(<< MarkStmt(MarkerName("b", k)) >>))],
                            IF withDefault THEN BlockStmt(<< MarkStmt("bd") >>) ELSE NoNode),
                 VarStmt("z", Literal(Num(0))) >>)

SwitchPrograms ==
    SetToSeq({ SwitchProgram(d, values, withDefault) :
                  d \in Discriminants,
                  values \in UNION { [1..n -> CaseValues] : n \in 0..MaxCases },
                  withDefault \in BOOLEAN })

\* the bounds of the counted loops: 0..MaxForBound
MaxForBound == 3

ForLoop(start, end) ==
    ForStmt("i", Literal(Num(start)), Literal(Num(end)), NoNode,
            BlockStmt(<< PrintStmt(<< Variable("i") >>) >>))

\* for i = start to end { da i }  at top level, and one such loop as the
\* body of a function that is called once
ForPrograms ==
    SetToSeq({ Source("for-top", << ForLoop(s, e) >>)
                 : s \in 0..MaxForBound, e \in 0..MaxForBound })
    \o << Source("for-function", <<
              FunctionStmt("f", << >>, BlockStmt(<< ForLoop(0, MaxForBound) >>)),
              ExprStmt(CallExpr(Variable("f"), << >>)) >>) >>

TryStmt(tryBlock) == [type |-> "TryStmt", tryBlock |-> tryBlock]

ThrowStmt(v) == [type |-> "ThrowStmt", value |-> v]

\* statements of the kinds compileStatement has no case of its own for
OtherStatements ==
    << AssignStmt("x", Literal(Num(5))),
       TryStmt(BlockStmt(<< PrintStmt(<< Literal(Str("try")) >>) >>)),
       ThrowStmt(Literal(Str("thrown"))) >>

\* ao x = 1; <statement>; da x
StatementProgram(stmt) ==
    Source("statement", << VarStmt("x", Literal(Num(1))), stmt, PrintStmt(<< Variable("x") >>) >>)

\* ao i = 0; while i < 2 { i = i + 1 }; da i  with the assignment statement
AssignLoopProgram ==
    Source("assign-loop", <<
        VarStmt("i", Literal(Num(0))),
        WhileStmt(BinaryExpr(Variable("i"), "<", Literal(Num(2))), BlockStmt(<<
            AssignStmt("i", BinaryExpr(Variable("i"), "+", Literal(Num(1)))) >>)),
        PrintStmt(<< Variable("i") >>) >>)

StatementPrograms ==
    << StatementProgram(OtherStatements[1]), StatementProgram(OtherStatements[2]),
       StatementProgram(OtherStatements[3]), AssignLoopProgram >>

\* the expressions wrapped by await and by spread
WrappedArguments ==
    << Literal(Num(7)), BinaryExpr(Variable("x"), "+", Literal(Num(1))),
       CallExpr(Variable("len"), << Literal(Str("ab")) >>) >>

\* ao x = 1; da <expr>
ExpressionProgram(name, expr) ==
    Source(name, << VarStmt("x", Literal(Num(1))), PrintStmt(<< expr >>) >>)

PassThroughPrograms ==
    << ExpressionProgram("await", AwaitExpr(WrappedArguments[1])),
       ExpressionProgram("await", AwaitExpr(WrappedArguments[2])),
       ExpressionProgram("await", AwaitExpr(WrappedArguments[3])),
       ExpressionProgram("spread", SpreadExpr(WrappedArguments[1])),
       ExpressionProgram("spread", SpreadExpr(WrappedArguments[2])),
       ExpressionProgram("spread",
           CallExpr(Variable("len"), << SpreadExpr(Literal(Str("ab"))) >>)) >>

\* statements that record one compile error each and add no constant:
\* break and continue outside a loop, return at top level, an await
FailingStatements ==
    << BreakStmt, ContinueStmt, ReturnStmt(NoNode),
       ExprStmt(AwaitExpr(Literal(Num(1)))) >>

\* a statement that records none and adds no constant: da 1
SoundStatement == PrintStmt(<< Literal(Num(1)) >>)

\* the statements per program of the error inputs
MaxSiblings == 3

SiblingChoices == FailingStatements \o << SoundStatement >>

\* list number k of the lists of MaxSiblings statements, each a failing
\* one or the sound one: the digits of k select the statements
SiblingList(k) ==
    [i \in 1..MaxSiblings |->
        SiblingChoices[((k \div (Len(SiblingChoices) ^ (i - 1))) % Len(SiblingChoices)) + 1]]

\* kian f() { break }  before and after a sound statement: the error is
\* recorded while a nested function is compiled
NestedErrorPrograms ==
    << Source("errors-nested", << FunctionStmt("f", << >>, BlockStmt(<< BreakStmt >>)),
                                  SoundStatement >>),
       Source("errors-nested", << SoundStatement,
                                  FunctionStmt("f", << >>, BlockStmt(<< SoundStatement,
                                                                        ContinueStmt >>)) >>) >>

ErrorPrograms ==
    [k \in 1..(Len(SiblingChoices) ^ MaxSiblings) |-> Source("errors", SiblingList(k - 1))]
    \o NestedErrorPrograms

\* break and continue
LoopExits == << BreakStmt, ContinueStmt >>

\* loops whose body never runs: while false { body } and for i = 0 to 0 { body }
IdleLoops(body) ==
    << WhileStmt(Literal(Bool(FALSE)), BlockStmt(body)),
       ForStmt("i", Literal(Num(0)), Literal(Num(0)), NoNode, BlockStmt(body)) >>

\* Placements of a break or continue without a loop around it in the same
\* function body: at top level, in a block, after a loop has ended, in a
\* function declared or an anonymous function written inside a loop, and
\* in a function after a loop of that function.
UnenclosedPlacements(exit, outer) ==
    << << exit >>,
       << BlockStmt(<< exit >>) >>,
       << IdleLoops(<< >>)[outer], exit >>,
       << IdleLoops(<< exit >>)[outer], exit >>,
       << IdleLoops(<< FunctionStmt("f", << >>, BlockStmt(<< exit >>)) >>)[outer] >>,
       << IdleLoops(<< ExprStmt(FunctionExpr(<< >>, BlockStmt(<< exit >>))) >>)[outer] >>,
       << FunctionStmt("f", << >>, BlockStmt(<< IdleLoops(<< >>)[outer], exit >>)) >> >>

\* Placements inside a loop of the same function body: directly, in a
\* block or an if of the body, after an inner loop, and in a loop of a
\* function.
EnclosedPlacements(exit, outer) ==
    << << IdleLoops(<< exit >>)[outer] >>,
       << IdleLoops(<< BlockStmt(<< exit >>) >>)[outer] >>,
       << IdleLoops(<< IfStmt(Literal(Bool(TRUE)), BlockStmt(<< exit >>), NoNode) >>)[outer] >>,
       << IdleLoops(<< IdleLoops(<< >>)[1], exit >>)[outer] >>,
       << IdleLoops(<< IdleLoops(<< exit >>)[2], exit >>)[outer] >>,
       << FunctionStmt("f", << >>, BlockStmt(<< IdleLoops(<< exit >>)[outer] >>)) >> >>

\* return at top level, with and without a value, alone and after a loop
TopLevelReturns ==
    << << ReturnStmt(NoNode) >>, << ReturnStmt(Literal(Num(1))) >>,
       << IdleLoops(<< >>)[1], ReturnStmt(NoNode) >>,
       << BlockStmt(<< ReturnStmt(NoNode) >>) >> >>

\* return inside a function
FunctionReturns ==
    << << FunctionStmt("f", << >>, BlockStmt(<< ReturnStmt(Literal(Num(1))) >>)) >>,
       << FunctionStmt("f", << >>, BlockStmt(<< IdleLoops(<< ReturnStmt(NoNode) >>)[1] >>)) >> >>

RECURSIVE Flatten(_)
Flatten(lists) == IF lists = << >> THEN << >> ELSE Head(lists) \o Flatten(Tail(lists))

Named(name, bodies) == [k \in DOMAIN bodies |-> Source(name, bodies[k])]

ControlFlowPrograms ==
    Named("control-unenclosed",
          Flatten(<< UnenclosedPlacements(LoopExits[1], 1), UnenclosedPlacements(LoopExits[1], 2),
                     UnenclosedPlacements(LoopExits[2], 1), UnenclosedPlacements(LoopExits[2], 2),
                     TopLevelReturns >>))
    \o Named("control-enclosed",
              Flatten(<< EnclosedPlacements(LoopExits[1], 1), EnclosedPlacements(LoopExits[1], 2),
                         EnclosedPlacements(LoopExits[2], 1), EnclosedPlacements(LoopExits[2], 2),
                         FunctionReturns >>))

Let(name, v) == VarStmt(name, Literal(Num(v)))

Empty == BlockStmt(<< >>)

\* a name declared twice at one scope depth of one function body, and a
\* local read in its own initializer
RedeclaringBodies == <<
    << BlockStmt(<< Let("x", 1), Let("x", 2) >>) >>,
    << BlockStmt(<< Let("x", 1), FunctionStmt("x", << >>, Empty) >>) >>,
    << BlockStmt(<< Let("x", 1), BlockStmt(<< Let("y", 2) >>), Let("x", 3) >>) >>,
    << FunctionStmt("f", << Parameter("a") >>, BlockStmt(<< Let("a", 1) >>)) >>,
    << FunctionStmt("f", << Parameter("a"), Parameter("a") >>, Empty) >>,
    << WhileStmt(Literal(Bool(FALSE)), BlockStmt(<< Let("x", 1), Let("x", 2) >>)) >>,
    << BlockStmt(<< VarStmt("x", Variable("x")) >>) >>,
    << BlockStmt(<< Let("x", 1),
                    BlockStmt(<< VarStmt("x", BinaryExpr(Variable("x"), "+",
                                                         Literal(Num(1)))) >>) >>) >>,
    << FunctionStmt("f", << >>, BlockStmt(<< VarStmt("y", Variable("y")) >>)) >> >>

\* a name declared again at global depth, in an inner scope, in a scope
\* beside the first one and in another function; a local read in the
\* initializer of another local
ShadowingBodies == <<
    << Let("x", 1), Let("x", 2) >>,
    << Let("x", 1), BlockStmt(<< Let("x", 2) >>) >>,
    << BlockStmt(<< Let("x", 1), BlockStmt(<< Let("x", 2) >>) >>) >>,
    << BlockStmt(<< BlockStmt(<< Let("x", 1) >>), BlockStmt(<< Let("x", 2) >>) >>) >>,
    << FunctionStmt("f", << Parameter("a") >>, BlockStmt(<< BlockStmt(<< Let("a", 1) >>) >>)) >>,
    << FunctionStmt("f", << Parameter("x") >>, Empty),
       FunctionStmt("g", << Parameter("x") >>, Empty) >>,
    << ForStmt("i", Literal(Num(0)), Literal(Num(0)), NoNode, BlockStmt(<< Let("i", 1) >>)) >>,
    << BlockStmt(<< Let("x", 1), VarStmt("y", Variable("x")) >>) >> >>

DeclarationPrograms ==
    Named("declare-again", RedeclaringBodies) \o Named("declare-shadow", ShadowingBodies)

\* the declarations a block may hold: none, variables, a function, a class
\* without and with a method, a variable beside a function
BlockDeclarations == <<
    << >>,
    << Let("a", 1) >>,
    << Let("a", 1), Let("b", 2) >>,
    << FunctionStmt("g", << >>, Empty) >>,
    << ClassStmt("K", << >>) >>,
    << ClassStmt("K", << FunctionStmt("m", << >>, Empty) >>) >>,
    << Let("a", 1), FunctionStmt("g", << >>, Empty) >> >>

Once == BinaryExpr(Variable("n"), "<", Literal(Num(1)))

Advance == ExprStmt(AssignExpr(Variable("n"), BinaryExpr(Variable("n"), "+", Literal(Num(1)))))

\* the block kinds, each entered once: plain block, then branch, else
\* branch, while body, for body, switch case body, switch default body
BlockKinds(body) == <<
    BlockStmt(body),
    IfStmt(Literal(Bool(TRUE)), BlockStmt(body), NoNode),
    IfStmt(Literal(Bool(FALSE)), Empty, BlockStmt(body)),
    WhileStmt(Once, BlockStmt(body \o << Advance >>)),
    ForStmt("i", Literal(Num(0)), Literal(Num(1)), NoNode, BlockStmt(body)),
    SwitchStmt(Literal(Num(1)), << SwitchCase(Literal(Num(1)), BlockStmt(body)) >>, NoNode),
    SwitchStmt(Literal(Num(1)), << >>, BlockStmt(body)) >>

Marker == Num(9)

\* ao n = 0; <block>; da 9
BlockProgram(block) ==
    << Let("n", 0), block, PrintStmt(<< Literal(Marker) >>) >>

BlockPrograms ==
    Named("block", Flatten([d \in DOMAIN BlockDeclarations |->
        [k \in DOMAIN BlockKinds(<< >>) |-> BlockProgram(BlockKinds(BlockDeclarations[d])[k])]]))

MaxPairs == 3

ObjectKeys == << Str("a"), Str("b") >>

Replacement == Num(9)

\* the constants of an object chunk: the keys, the value of each pair (the
\* number of the pair) and the replacement value
ObjectConstants ==
    ObjectKeys \o [i \in 1..MaxPairs |-> Num(i)] \o << Replacement >>

ReplacementIndex == Len(ObjectConstants) - 1

\* the k-th list of n key numbers
KeyList(n, k) == [i \in 1..n |-> ((k \div (Len(ObjectKeys) ^ (i - 1))) % Len(ObjectKeys)) + 1]

KeyLists ==
    Flatten([n \in 1..(MaxPairs + 1) |->
        [k \in 1..(Len(ObjectKeys) ^ (n - 1)) |-> KeyList(n - 1, k - 1)]])

\* key and value of each pair pushed in order
RECURSIVE PushPairs(_, _)
PushPairs(keys, i) ==
    IF i > Len(keys) THEN << >>
    ELSE << OP_CONSTANT, keys[i] - 1, OP_CONSTANT, Len(ObjectKeys) + i - 1 >> \o PushPairs(keys, i + 1)

\* what follows OBJECT: nothing, object.key = 9, or object[key] = 9
ObjectWrites ==
    << [op |-> "none", key |-> 1] >>
    \o [k \in DOMAIN ObjectKeys |-> [op |-> "property", key |-> k]]
    \o [k \in DOMAIN ObjectKeys |-> [op |-> "index", key |-> k]]

WriteCode(w) ==
    CASE w.op = "property" -> << OP_CONSTANT, ReplacementIndex, OP_SET_PROPERTY, w.key - 1 >>
      [] w.op = "index" -> << OP_CONSTANT, w.key - 1, OP_CONSTANT, ReplacementIndex, OP_SET_INDEX >>
      [] OTHER -> << >>

\* a value below the pairs, the pairs, OBJECT n, the write
ObjectChunk(keys, w) ==
    [name |-> "object", program |-> NoNode, keys |-> keys, write |-> w,
     extra |-> << Fn("<script>", 0, 0, ObjectConstants,
                     << OP_TRUE >> \o PushPairs(keys, 1) \o << OP_OBJECT, Len(keys) >>
                     \o WriteCode(w) \o << OP_POP, OP_POP, OP_NULL, OP_RETURN >>) >>]

ObjectInputs ==
    Flatten([k \in DOMAIN KeyLists |->
        [w \in DOMAIN ObjectWrites |-> ObjectChunk(KeyLists[k], ObjectWrites[w])]])

\* the code that pushes one value of each kind: null, a Boolean, Numbers,
\* Strings, an Array, an Object, a closure, a class, a native, 1 % 0 and
\* "s" - 1
Producers == <<
    << OP_NULL >>,
    << OP_TRUE >>,
    << OP_LOAD_ZERO >>,
    << OP_LOAD_ONE >>,
    << OP_CONSTANT, 0 >>,
    << OP_CONSTANT, 3 >>,
    << OP_ARRAY, 0 >>,
    << OP_OBJECT, 0 >>,
    << OP_CLOSURE, 1 >>,
    << OP_CLASS, 2 >>,
    << OP_GET_GLOBAL, 4 >>,
    << OP_LOAD_ONE, OP_LOAD_ZERO, OP_MODULO >>,
    << OP_CONSTANT, 0, OP_LOAD_ONE, OP_SUBTRACT >> >>

\* a in slot 1 and b in slot 2, then a == b, b == a and a == a
Comparisons ==
    << OP_GET_LOCAL, 1, OP_GET_LOCAL, 2, OP_EQUAL,
       OP_GET_LOCAL, 2, OP_GET_LOCAL, 1, OP_EQUAL,
       OP_GET_LOCAL, 1, OP_GET_LOCAL, 1, OP_EQUAL >>

EqualChunk(a, b) ==
    [name |-> "equal", program |-> NoNode, left |-> a, right |-> b,
     extra |-> << OneFunction,
                  Fn("<script>", 0, 0, << Str("s"), FunctionVal(1), Str("K"), Str("1"), Str("len") >>,
                     Producers[a] \o Producers[b] \o Comparisons
                     \o << OP_POP, OP_POP, OP_POP, OP_POP, OP_POP, OP_NULL, OP_RETURN >>) >>]

EqualInputs ==
    Flatten([a \in DOMAIN Producers |-> [b \in DOMAIN Producers |-> EqualChunk(a, b)]])

\* klum name dueng superclass { methods }
SubclassStmt(name, superclass, methods) ==
    [type |-> "ClassStmt", name |-> name, superclass |-> superclass, body |-> [methods |-> methods]]

\* klum Shape { kian describe() { } }  klum Circle dueng Shape { }
\* ao c = mai Circle()  c.describe
InheritProgram ==
    [name |-> "inherit", program |-> Program(<<
        ClassStmt("Shape", << FunctionStmt("describe", << >>, Empty) >>),
        SubclassStmt("Circle", "Shape", << >>),
        VarStmt("c", NewExpr(Variable("Circle"), << >>)),
        ExprStmt(MemberExpr(Variable("c"), "describe")) >>),
     extra |-> << >>, instance |-> "Circle"]

Describe == Fn("describe", 0, 0, << >>, << OP_NULL, OP_RETURN >>)

\* the code of compileClassStmt for the two classes with the CLOSURE of
\* describe where METHOD takes it, INHERIT between the classes or not, then
\* describe read from an instance of the class with constant k
InheritChunk(inherit, k) ==
    LET constants == << Str("Shape"), FunctionVal(1), Str("describe"), Str("Circle") >>
    IN [name |-> "inherit", program |-> NoNode, instance |-> constants[k + 1].s,
        extra |-> << Describe,
                     Fn("<script>", 0, 0, constants,
                        << OP_CLASS, 0, OP_DEFINE_GLOBAL, 0, OP_GET_GLOBAL, 0,
                           OP_CLOSURE, 1, OP_METHOD, 2, OP_POP,
                           OP_CLASS, 3, OP_DEFINE_GLOBAL, 3, OP_GET_GLOBAL, 3, OP_POP >>
                        \o (IF inherit THEN << OP_GET_GLOBAL, 0, OP_GET_GLOBAL, 3, OP_INHERIT >>
                            ELSE << >>)
                        \o << OP_GET_GLOBAL, k, OP_CALL, 0, OP_GET_PROPERTY, 2,
                              OP_POP, OP_NULL, OP_RETURN >>) >>]

InheritInputs ==
    << InheritProgram, InheritChunk(FALSE, 0), InheritChunk(FALSE, 3),
       InheritChunk(TRUE, 0), InheritChunk(TRUE, 3) >>

\* one nested function each: a declaration, a declaration in a block, an
\* anonymous function, a method, and a declaration whose body declares a
\* function that reads a local of it
NestedFunctionBodies == <<
    << FunctionStmt("f", << >>, Empty) >>,
    << FunctionStmt("f", << Parameter("a") >>, BlockStmt(<< ReturnStmt(Variable("a")) >>)) >>,
    << BlockStmt(<< FunctionStmt("f", << >>, Empty) >>) >>,
    << VarStmt("g", FunctionExpr(<< >>, Empty)) >>,
    << VarStmt("g", FunctionExpr(<< Parameter("a") >>, Variable("a"))) >>,
    << ClassStmt("K", << FunctionStmt("m", << >>, Empty) >>) >>,
    << FunctionStmt("outer", << >>, BlockStmt(<<
           Let("n", 0),
           FunctionStmt("inner", << >>, BlockStmt(<< ReturnStmt(Variable("n")) >>)) >>)) >> >>

NestedFunctionPrograms == Named("nested", NestedFunctionBodies)

MaxDistance == 3

\* the use of n: kuun n, or n = 1
UseOfN(write) ==
    IF write THEN ExprStmt(AssignExpr(Variable("n"), Literal(Num(1))))
    ELSE ReturnStmt(Variable("n"))

\* d functions, one inside the other, around the use of n
RECURSIVE Nest(_, _)
Nest(d, write) ==
    IF d = 0 THEN UseOfN(write)
    ELSE FunctionStmt("inner", << >>, BlockStmt(<< Nest(d - 1, write) >>))

\* kian outer() { ao n = 0; kian inner() { ... n ... } }  with n used d
\* function levels below outer
UpvalueProgram(d, write) ==
    [name |-> "upvalue", distance |-> d, write |-> write, extra |-> << >>,
     program |-> Program(<< FunctionStmt("outer", << >>,
                               BlockStmt(<< Let("n", 0), Nest(d, write) >>)) >>)]

UpvaluePrograms ==
    [d \in 1..MaxDistance |-> UpvalueProgram(d, FALSE)]
    \o [d \in 1..MaxDistance |-> UpvalueProgram(d, TRUE)]

Show(name) == PrintStmt(<< Variable(name) >>)

SetTo(name, v) == ExprStmt(AssignExpr(Variable(name), Literal(Num(v))))

\* the body of f(a) and of K.m(a): a local b beside the parameter, read,
\* written and read again, with a block-local c in between
LocalsBody ==
    BlockStmt(<< Let("b", 7), Show("a"), Show("b"),
                 BlockStmt(<< Let("c", 4), Show("c"), Show("b") >>),
                 SetTo("b", 8), Show("b"), Show("a") >>)

LocalsOutput == << "1", "7", "4", "7", "8", "1" >>

\* kian f(a) { ... } compiled; its Function (the second of the compilation)
\* is wrapped by CLOSURE and called with 1
FunctionLocalsInput ==
    [name |-> "locals", prints |-> LocalsOutput,
     program |-> Program(<< FunctionStmt("f", << Parameter("a") >>, LocalsBody) >>),
     extra |-> << Fn("<driver>", 0, 0, << FunctionVal(2) >>,
                     << OP_CLOSURE, 0, OP_LOAD_ONE, OP_CALL, 1, OP_POP, OP_NULL, OP_RETURN >>) >>]

\* klum K { kian m(a) { ... } } compiled; m is installed by CLASS, CLOSURE,
\* METHOD and called with 1 on an instance of K
MethodLocalsInput ==
    [name |-> "locals", prints |-> LocalsOutput,
     program |-> Program(<< ClassStmt("K", << FunctionStmt("m", << Parameter("a") >>, LocalsBody) >>) >>),
     extra |-> << Fn("<driver>", 0, 0, << Str("K"), FunctionVal(2), Str("m") >>,
                     << OP_CLASS, 0, OP_CLOSURE, 1, OP_METHOD, 2, OP_CALL, 0,
                        OP_GET_PROPERTY, 2, OP_LOAD_ONE, OP_CALL, 1,
                        OP_POP, OP_NULL, OP_RETURN >>) >>]

\* blocks in top-level code
BlockLocalsInputs == <<
    [name |-> "locals", prints |-> << "5" >>, extra |-> << >>,
     program |-> Program(<< BlockStmt(<< Let("a", 5), Show("a") >>) >>)],
    [name |-> "locals", prints |-> << "6" >>, extra |-> << >>,
     program |-> Program(<< BlockStmt(<< Let("a", 5), SetTo("a", 6), Show("a") >>) >>)],
    [name |-> "locals", prints |-> << "5", "6", "5" >>, extra |-> << >>,
     program |-> Program(<< BlockStmt(<< Let("a", 5),
                                         BlockStmt(<< Let("b", 6), Show("a"), Show("b") >>),
                                         Show("a") >>) >>)],
    [name |-> "locals", prints |-> << "5" >>, extra |-> << >>,
     program |-> Program(<< IfStmt(Literal(Bool(TRUE)),
                                   BlockStmt(<< Let("a", 5), Show("a") >>), NoNode) >>)] >>

LocalsInputs == << FunctionLocalsInput, MethodLocalsInput >> \o BlockLocalsInputs

Twice == BinaryExpr(Variable("n"), "<", Literal(Num(2)))

\* the bodies of while n < 2 { n = n + 1; ... } that leave through exit:
\* with no local, with one and with two locals declared before the exit,
\* with the local and the exit in the block of an if, and with a local
\* declared after the exit
ExitingBodies(exit) == <<
    << Advance, exit >>,
    << Advance, Let("a", 1), exit >>,
    << Advance, Let("a", 1), Let("b", 2), exit >>,
    << Advance, IfStmt(Literal(Bool(TRUE)), BlockStmt(<< Let("a", 1), exit >>), NoNode) >>,
    << Advance, IfStmt(Literal(Bool(TRUE)), BlockStmt(<< exit >>), NoNode), Let("a", 1) >>,
    << Advance, exit, Let("a", 1) >> >>

\* ao n = 0; while n < 2 { body }; da 9
ExitingLoop(body) == BlockProgram(WhileStmt(Twice, BlockStmt(body)))

LoopExitPrograms ==
    Named("loop-exit", [k \in DOMAIN ExitingBodies(BreakStmt) |->
                            ExitingLoop(ExitingBodies(BreakStmt)[k])]
                       \o [k \in DOMAIN ExitingBodies(ContinueStmt) |->
                            ExitingLoop(ExitingBodies(ContinueStmt)[k])])

\* more body entries than any of the loops below has iterations
EntryCap == MaxForBound + 2

\* the loop is left by kuun once the body has been entered more often than
\* the cap
CappedEntry ==
    IfStmt(BinaryExpr(Variable("n"), ">", Literal(Num(EntryCap))),
           BlockStmt(<< ReturnStmt(NoNode) >>), NoNode)

\* the bodies that count their entries in n and then continue: always, and
\* in the first iteration only; and the body that ends normally
ContinuingBodies == <<
    << CappedEntry, Advance >>,
    << CappedEntry, Advance, ContinueStmt >>,
    << CappedEntry, Advance,
       IfStmt(BinaryExpr(Variable("i"), "<", Literal(Num(1))),
              BlockStmt(<< ContinueStmt >>), NoNode) >> >>

ForSteps == << NoNode, Literal(Num(1)), Literal(Num(2)) >>

\* kian f() { for i = 0 to end step s { body } } compiled; the driver sets
\* n to 0, wraps the Function of f (the second of the compilation) by
\* CLOSURE and calls it
ForContinueInput(end, step, body) ==
    [name |-> "for-continue", end |-> end, step |-> step,
     program |-> Program(<< FunctionStmt("f", << >>, BlockStmt(<<
                     ForStmt("i", Literal(Num(0)), Literal(Num(end)), ForSteps[step],
                             BlockStmt(ContinuingBodies[body])) >>)) >>),
     extra |-> << Fn("<driver>", 0, 0, << Str("n"), FunctionVal(2) >>,
                     << OP_LOAD_ZERO, OP_DEFINE_GLOBAL, 0, OP_CLOSURE, 1, OP_CALL, 0,
                        OP_POP, OP_NULL, OP_RETURN >>) >>]

ForContinueInputs ==
    Flatten(Flatten([e \in 1..MaxForBound |-> [s \in DOMAIN ForSteps |->
        [b \in DOMAIN ContinuingBodies |-> ForContinueInput(e, s, b)]]]))

MaxInsertions == 3

\* expressions that put a constant into the pool: Number and String
\* literals, the folded literals 2 + 1 and 1 % 0, and the name of a global
PoolExpressions == <<
    Literal(Num(2)),
    Literal(Num(3)),
    Literal(Str("a")),
    BinaryExpr(Literal(Num(2)), "+", Literal(Num(1))),
    BinaryExpr(Literal(Num(1)), "%", Literal(Num(0))),
    Variable("a") >>

\* the k-th list of n expressions, each an expression statement
PoolList(n, k) ==
    [i \in 1..n |->
        ExprStmt(PoolExpressions[((k \div (Len(PoolExpressions) ^ (i - 1)))
                                  % Len(PoolExpressions)) + 1])]

\* ao a = 0 and then the expressions
PoolPrograms ==
    [k \in 1..(Len(PoolExpressions) ^ MaxInsertions) |->
        Source("pool", << Let("a", 0) >> \o PoolList(MaxInsertions, k - 1))]

\* the literals of the folded expressions: the Numbers a NUMBER token of
\* the lexer can stand for are not negative
MaxLiteral == 3

FoldedOperators == << "+", "-", "*", "/", "%", "**", "<", "<=", ">", ">=", "==", "!=" >>

\* left literal, right literal, operator instruction
unfolded(c, expr) ==
    emitAll(compileLiteral(compileLiteral(c, expr.left), expr.right),
            binaryOpcodes(expr.operator))

\* the script that holds the code compileBinaryExpr emits for the expression
\* and then the unfolded code for it
FoldInput(left, operator, right) ==
    LET expr == BinaryExpr(Literal(Num(left)), operator, Literal(Num(right)))
    IN [name |-> "fold", program |-> NoNode, expr |-> expr,
        extra |-> emitReturn(unfolded(compileBinaryExpr(NewCompiler, expr), expr)).funcs]

FoldInputs ==
    Flatten(Flatten([l \in 1..(MaxLiteral + 1) |-> [r \in 1..(MaxLiteral + 1) |->
        [o \in DOMAIN FoldedOperators |-> FoldInput(l - 1, FoldedOperators[o], r - 1)]]]))

\* the sizes of the code jumped over: 0..MaxPad, the sizes about the two
\* places where a byte of the operand carries, and Strides sizes Stride apart
MaxPad == 2

Stride == 1285

Strides == 50

EdgePads == << 250, 251, 253, 254, 65530, 65531, 65533, 65534 >>

\* the compiler after n more bytes were written to its chunk
pad(c, n) ==
    [c EXCEPT !.funcs[Current(c).fn].chunk.code = @ \o [k \in 1..n |-> OP_POP],
              !.funcs[Current(c).fn].chunk.lines = @ \o [k \in 1..n |-> 0]]

\* the value the instruction tests, then the jump, at loopStart the return,
\* n bytes that are jumped over, and where the jump is patched to a loop
\* back to loopStart
JumpInput(instruction, n) ==
    Then(IF instruction = OP_JUMP THEN NewCompiler
         ELSE emitByte(NewCompiler, IF instruction = OP_JUMP_IF_TRUE THEN OP_TRUE ELSE OP_FALSE),
         LAMBDA c0 :
    Then(emitJump(c0, instruction), LAMBDA j :
    Then(pad(emitReturn(j.c), n), LAMBDA c1 :
    Then(emitLoop(patchJump(c1, j.offset), j.offset + 2), LAMBDA c2 :
        [name |-> "jump", program |-> NoNode, instruction |-> instruction,
         operand |-> j.offset, loopStart |-> j.offset + 2,
         end |-> Len(currentChunk(c1).code), errors |-> c2.errors,
         extra |-> c2.funcs]))))

JumpInstructions == << OP_JUMP, OP_JUMP_IF_FALSE, OP_JUMP_IF_TRUE >>

JumpInputs ==
    Flatten([i \in DOMAIN JumpInstructions |->
                [n \in 1..(MaxPad + 1) |-> JumpInput(JumpInstructions[i], n - 1)]
                \o [e \in DOMAIN EdgePads |-> JumpInput(JumpInstructions[i], EdgePads[e])]])
    \o [k \in 1..Strides |-> JumpInput(OP_JUMP, k * Stride)]

(***************************************************************************)
(* The tree-walking interpreter (interpreter.ts), for the statements of    *)
(* the files below: print and expression statements over literals, binary *)
(* expressions and await.  An evaluation yields its value, the lines it    *)
(* wrote to context.output and the message of the Error it threw ("" for  *)
(* none).                                                                  *)
(***************************************************************************)
\* the texts are kept by their keys
ROAST_MESSAGES == [divideByZero |-> "<divideByZero>"]

Evaluated(value) == [value |-> value, out |-> << >>, thrown |-> ""]

evaluateBinaryExpr(operator, left, right) ==
    IF operator = "/" /\ right = Num(0)
    THEN [value |-> Undefined, out |-> << ROAST_MESSAGES.divideByZero >>,
          thrown |-> "Division by zero"]
    ELSE Evaluated(CASE operator = "+" -> NumAdd(left, right)
                     [] operator = "-" -> NumSub(left, right)
                     [] operator = "*" -> NumMul(left, right)
                     [] operator = "/" -> NumDiv(left, right)
                     [] operator = "%" -> NumMod(left, right)
                     [] operator = "**" -> NumPow(left, right)
                     [] operator = ">" -> Bool(NumLess(right, left))
                     [] operator = ">=" -> Bool(NumLessEq(right, left))
                     [] operator = "<" -> Bool(NumLess(left, right))
                     [] operator = "<=" -> Bool(NumLessEq(left, right))
                     [] operator = "==" -> Bool(NumEq(left, right))
                     [] operator = "!=" -> Bool(~NumEq(left, right))
                     [] OTHER -> Nil)

RECURSIVE evaluate(_)
evaluate(expr) ==
    CASE expr.type = "Literal" -> Evaluated(expr.value)
      [] expr.type = "AwaitExpr" -> evaluate(expr.argument)
      [] expr.type = "BinaryExpr" ->
            LET left == evaluate(expr.left)
                right == evaluate(expr.right)
                r == evaluateBinaryExpr(expr.operator, left.value, right.value)
            IN IF left.thrown # "" THEN left
               ELSE IF right.thrown # "" THEN [right EXCEPT !.out = left.out \o @]
               ELSE [r EXCEPT !.out = left.out \o right.out \o @]

interpreterStringify(val) ==
    CASE val.t = "nil" -> "wang"
      [] val.t = "undefined" -> "undefined"
      [] val.t = "bool" -> IF val.n = 1 THEN "jing" ELSE "tej"
      [] val.t = "num" -> NumberToString(val)
      [] val.t = "str" -> val.s

RECURSIVE joined(_)
joined(strings) ==
    IF Len(strings) = 1 THEN strings[1]
    ELSE strings[1] \o " " \o joined(Tail(strings))

\* every expression is evaluated; the line is written when none has thrown
executePrintStmt(stmt) ==
    LET values == [i \in DOMAIN stmt.expressions |-> evaluate(stmt.expressions[i])]
        thrown == {i \in DOMAIN values : values[i].thrown # ""}
        outs == Flatten([i \in DOMAIN values |-> values[i].out])
    IN IF thrown # {}
       THEN [value |-> Undefined, out |-> outs,
             thrown |-> values[CHOOSE i \in thrown : \A j \in thrown : i <= j].thrown]
       ELSE [value |-> Undefined, thrown |-> "",
             out |-> Append(outs, joined([i \in DOMAIN values |->
                                             interpreterStringify(values[i].value)]))]

execute(stmt) ==
    CASE stmt.type = "PrintStmt" -> executePrintStmt(stmt)
      [] stmt.type = "ExprStmt" -> evaluate(stmt.expression)

\* the statements in their order up to the first that throws
RECURSIVE executeAll(_)
executeAll(stmts) ==
    IF stmts = << >> THEN Evaluated(Nil)
    ELSE LET first == execute(Head(stmts))
             rest == executeAll(Tail(stmts))
         IN IF first.thrown # "" THEN first
            ELSE [rest EXCEPT !.out = first.out \o @]

\* interpret(program): the Error of a statement is reported and thrown on
interpret(program) ==
    LET r == executeAll(program.body)
    IN IF r.thrown = "" THEN r
       ELSE [r EXCEPT !.out = Append(@, "Runtime Error: " \o r.thrown)]

\* the files handed to runFile: MaxPrints or fewer lines printed, and then
\* the end of the file, a division by zero printed or evaluated, or an await
MaxPrints == 2

DividedByZero == BinaryExpr(Literal(Num(1)), "/", Literal(Num(0)))

FileEndings ==
    << << >>,
       << PrintStmt(<< DividedByZero >>) >>,
       << ExprStmt(DividedByZero) >>,
       << PrintStmt(<< AwaitExpr(Literal(Num(9))) >>) >> >>

File(n, e) ==
    [name |-> "file",
     program |-> Program([k \in 1..n |-> PrintStmt(<< Literal(Num(k)) >>)] \o FileEndings[e]),
     prints |-> n, ending |-> e, extra |-> << >>]

Files == Flatten([n \in 1..(MaxPrints + 1) |-> [e \in DOMAIN FileEndings |-> File(n - 1, e)]])

(***************************************************************************)
(* Actions                                                                 *)
(***************************************************************************)
Inputs ==
    << ClosureCounterProgram, ClassProgram, NativeCallProgram >>
    \o MemberAssignPrograms \o IndexAssignPrograms \o ArrayPrograms \o ShortCircuitPrograms
    \o << UpvalueSharingChunks >> \o ArityChunks \o InitializerInputs
    \o << TourProgram, TourChunks >>
    \o SwitchPrograms
    \o UndefinedGlobalPrograms
    \o NonNumberPrograms
    \o DivisionByZeroPrograms
    \o << FaultLineProgram >>
    \o IndexTargetInputs
    \o << RecursionChunks, PushLoopChunks >>
    \o RerunInputs
    \o ConcurrentInputs
    \o ForPrograms
    \o StatementPrograms
    \o PassThroughPrograms
    \o ErrorPrograms
    \o ControlFlowPrograms
    \o DeclarationPrograms
    \o BlockPrograms
    \o ObjectInputs
    \o EqualInputs
    \o InheritInputs
    \o NestedFunctionPrograms
    \o UpvaluePrograms
    \o LocalsInputs
    \o LoopExitPrograms
    \o ForContinueInputs
    \o PoolPrograms
    \o FoldInputs
    \o JumpInputs
    \o Files

TheInput == Inputs[input]

\* new Compiler() and new VM(context): registerNatives copies the natives
\* of the context into globals
Init ==
    /\ input \in 1..Len(Inputs)
    /\ status = "new"
    /\ functions = << >>
    /\ hadError = FALSE
    /\ stack = << >>
    /\ stackTop = 0
    /\ frames = << >>
    /\ heap = << [type |-> "native", name |-> "len"], [type |-> "native", name |-> "push"] >>
    /\ globals = [k \in NativeNames |-> IF k = "len" THEN Ref("native", 1) ELSE Ref("native", 2)]
    /\ upvals = << >>
    /\ openUpvalues = << >>
    /\ output = << >>
    /\ result = Undefined
    /\ runs = << >>
    /\ loops = << >>

\* compiler.compile(ast): null is returned iff hadError
Compile ==
    /\ status = "new"
    /\ TheInput.program # NoNode
    /\ LET c == compile(TheInput.program)
       IN /\ functions' = c.funcs \o TheInput.extra
          /\ hadError' = c.hadError
          /\ status' = IF c.hadError THEN "nofunc" ELSE "compiled"
    /\ UNCHANGED << input, stack, stackTop, frames, globals, heap, upvals, openUpvalues,
                    output, result, runs, loops >>

\* the host builds the Functions itself
Load ==
    /\ status = "new"
    /\ TheInput.program = NoNode
    /\ functions' = TheInput.extra
    /\ status' = "compiled"
    /\ UNCHANGED << input, hadError, stack, stackTop, frames, globals, heap, upvals,
                    openUpvalues, output, result, runs, loops >>

\* the Function handed to run()
EntryFunction == IF TheInput.extra = << >> THEN 1 ELSE Len(functions)

\* run(func) up to the call of execute()
run(m, func) ==
    LET a == Alloc(m, [type |-> "closure", function |-> func, upvalues |-> << >>])
    IN callClosure(push(a.m, a.ref), a.ref.n, 0)

Run ==
    /\ status = "compiled"
    /\ Store(run([Machine EXCEPT !.status = "running"], EntryFunction))
    /\ runs' = Append(runs, status)
    /\ UNCHANGED loops

\* the calls of run() the host makes on one VM
MaxRuns == 2

\* a Function the host holds for a fresh run
FreshFunctions == { f \in 1..Len(functions) : functions[f].name = "<fresh>" }

\* the promise of the last run() is settled and the host calls run() again,
\* with a fresh Function, on the same VM
RunAgain ==
    /\ status \in {"done", "fault", "crash"}
    /\ loops = << >>
    /\ Len(runs) < MaxRuns
    /\ \E f \in FreshFunctions :
          Store(run([Machine EXCEPT !.status = "running"], f))
    /\ runs' = Append(runs, status)
    /\ UNCHANGED loops

\* runFile in VM mode, for the inputs it is the host of: compile() has
\* returned no Function, or the promise of run() was rejected and the catch
\* has the Error; runWithInterpreter interprets the program of the file.
\* output is the console: the output of the VM and context.output of the
\* interpreter both write to it.
FallsBack ==
    /\ TheInput.name = "file"
    /\ status \in {"nofunc", "fault", "crash"}
    /\ Len(runs) = IF status = "nofunc" THEN 0 ELSE 1

Fallback ==
    /\ FallsBack
    /\ output' = output \o interpret(TheInput.program).out
    /\ runs' = Append(runs, status)
    /\ UNCHANGED << input, status, functions, hadError, stack, stackTop, frames, globals,
                    heap, upvals, openUpvalues, result, loops >>

\* a Function the host runs without awaiting the promise of the first run
ConcurrentFunctions == { f \in 1..Len(functions) : functions[f].name = "<concurrent>" }

\* the host has called run() once, has not awaited its promise, and has a
\* second run() to call: host code of the shape  vm.run(a); vm.run(g)
HostPending == ConcurrentFunctions # {} /\ Len(runs) = 1

\* run() returns its promise to the host when execute() reaches its first
\* await (or has ended); the host's code goes on and calls run() again on
\* the same VM.  run() executes up to the first await of the new activation.
RunConcurrently ==
    /\ HostPending
    /\ status \in {"suspended", "done", "fault", "crash"}
    /\ \E f \in ConcurrentFunctions :
          Store(run([Machine EXCEPT !.status = "running"], f))
    /\ runs' = Append(runs, status)
    /\ UNCHANGED loops

\* The host's code has run to its end and the oldest continuation is taken
\* from the queue.  An activation inside callValue pushes the value of
\* native.fn; callValue returns and execute() waits one more turn for its
\* promise.  An activation at the await of OP_CALL re-reads
\* frame = currentFrame() and goes on with the next instruction.
Resume ==
    /\ status \in {"suspended", "done", "fault", "crash"}
    /\ loops # << >>
    /\ ~HostPending
    /\ LET m == [Machine EXCEPT !.status = "running"]
           pushed == push(m, Head(loops).value)
       IN IF ~Head(loops).push
          THEN Store(m) /\ loops' = Tail(loops)
          ELSE IF Running(pushed)
          THEN /\ Store([pushed EXCEPT !.status = "suspended"])
               /\ loops' = Append(Tail(loops), [Head(loops) EXCEPT !.push = FALSE])
          ELSE Store(pushed) /\ loops' = Tail(loops)
    /\ UNCHANGED runs

\* One iteration of the loop of execute(): readByte() fetches the opcode at
\* ip, and the case of the switch for it runs.
Fetched == readByte(Machine)

DoConstant ==
    /\ status = "running"
    /\ Fetched.byte = OP_CONSTANT
    /\ Commit(Constant(Fetched.m))

DoTrue ==
    /\ status = "running"
    /\ Fetched.byte = OP_TRUE
    /\ Commit(True(Fetched.m))

DoFalse ==
    /\ status = "running"
    /\ Fetched.byte = OP_FALSE
    /\ Commit(False(Fetched.m))

DoNull ==
    /\ status = "running"
    /\ Fetched.byte = OP_NULL
    /\ Commit(Null(Fetched.m))

DoLoadZero ==
    /\ status = "running"
    /\ Fetched.byte = OP_LOAD_ZERO
    /\ Commit(LoadZero(Fetched.m))

DoLoadOne ==
    /\ status = "running"
    /\ Fetched.byte = OP_LOAD_ONE
    /\ Commit(LoadOne(Fetched.m))

DoPop ==
    /\ status = "running"
    /\ Fetched.byte = OP_POP
    /\ Commit(Pop(Fetched.m))

DoDup ==
    /\ status = "running"
    /\ Fetched.byte = OP_DUP
    /\ Commit(Dup(Fetched.m))

DoAdd ==
    /\ status = "running"
    /\ Fetched.byte = OP_ADD
    /\ Commit(Add(Fetched.m))

DoSubtract ==
    /\ status = "running"
    /\ Fetched.byte = OP_SUBTRACT
    /\ Commit(Subtract(Fetched.m))

DoMultiply ==
    /\ status = "running"
    /\ Fetched.byte = OP_MULTIPLY
    /\ Commit(Multiply(Fetched.m))

DoDivide ==
    /\ status = "running"
    /\ Fetched.byte = OP_DIVIDE
    /\ Commit(Divide(Fetched.m))

DoModulo ==
    /\ status = "running"
    /\ Fetched.byte = OP_MODULO
    /\ Commit(Modulo(Fetched.m))

DoPower ==
    /\ status = "running"
    /\ Fetched.byte = OP_POWER
    /\ Commit(Power(Fetched.m))

DoNegate ==
    /\ status = "running"
    /\ Fetched.byte = OP_NEGATE
    /\ Commit(Negate(Fetched.m))

DoEqual ==
    /\ status = "running"
    /\ Fetched.byte = OP_EQUAL
    /\ Commit(Equal(Fetched.m))

DoNotEqual ==
    /\ status = "running"
    /\ Fetched.byte = OP_NOT_EQUAL
    /\ Commit(NotEqual(Fetched.m))

DoGreater ==
    /\ status = "running"
    /\ Fetched.byte = OP_GREATER
    /\ Commit(Greater(Fetched.m))

DoGreaterEqual ==
    /\ status = "running"
    /\ Fetched.byte = OP_GREATER_EQUAL
    /\ Commit(GreaterEqual(Fetched.m))

DoLess ==
    /\ status = "running"
    /\ Fetched.byte = OP_LESS
    /\ Commit(Less(Fetched.m))

DoLessEqual ==
    /\ status = "running"
    /\ Fetched.byte = OP_LESS_EQUAL
    /\ Commit(LessEqual(Fetched.m))

DoNot ==
    /\ status = "running"
    /\ Fetched.byte = OP_NOT
    /\ Commit(Not(Fetched.m))

DoDefineGlobal ==
    /\ status = "running"
    /\ Fetched.byte = OP_DEFINE_GLOBAL
    /\ Commit(DefineGlobal(Fetched.m))

DoGetGlobal ==
    /\ status = "running"
    /\ Fetched.byte = OP_GET_GLOBAL
    /\ Commit(GetGlobal(Fetched.m))

DoSetGlobal ==
    /\ status = "running"
    /\ Fetched.byte = OP_SET_GLOBAL
    /\ Commit(SetGlobal(Fetched.m))

DoGetLocal ==
    /\ status = "running"
    /\ Fetched.byte = OP_GET_LOCAL
    /\ Commit(GetLocal(Fetched.m))

DoSetLocal ==
    /\ status = "running"
    /\ Fetched.byte = OP_SET_LOCAL
    /\ Commit(SetLocal(Fetched.m))

DoIncLocal ==
    /\ status = "running"
    /\ Fetched.byte = OP_INC_LOCAL
    /\ Commit(IncLocal(Fetched.m))

DoGetUpvalue ==
    /\ status = "running"
    /\ Fetched.byte = OP_GET_UPVALUE
    /\ Commit(GetUpvalue(Fetched.m))

DoSetUpvalue ==
    /\ status = "running"
    /\ Fetched.byte = OP_SET_UPVALUE
    /\ Commit(SetUpvalue(Fetched.m))

DoCloseUpvalue ==
    /\ status = "running"
    /\ Fetched.byte = OP_CLOSE_UPVALUE
    /\ Commit(CloseUpvalue(Fetched.m))

DoJump ==
    /\ status = "running"
    /\ Fetched.byte = OP_JUMP
    /\ Commit(Jump(Fetched.m))

DoJumpIfFalse ==
    /\ status = "running"
    /\ Fetched.byte = OP_JUMP_IF_FALSE
    /\ Commit(JumpIfFalse(Fetched.m))

DoJumpIfTrue ==
    /\ status = "running"
    /\ Fetched.byte = OP_JUMP_IF_TRUE
    /\ Commit(JumpIfTrue(Fetched.m))

DoLoop ==
    /\ status = "running"
    /\ Fetched.byte = OP_LOOP
    /\ Commit(Loop(Fetched.m))

\* await this.callValue(...): whatever the callee, execute() stands at the
\* await when callValue has pushed the frame or has called native.fn
DoCall ==
    /\ status = "running"
    /\ Fetched.byte = OP_CALL
    /\ LET m == Call(Fetched.m)
       IN IF Running(m)
          THEN Store([m EXCEPT !.status = "suspended"]) /\ loops' = Append(loops, m.yield)
          ELSE Store(m) /\ UNCHANGED loops
    /\ UNCHANGED runs

DoClosure ==
    /\ status = "running"
    /\ Fetched.byte = OP_CLOSURE
    /\ Commit(Closure(Fetched.m))

DoReturn ==
    /\ status = "running"
    /\ Fetched.byte = OP_RETURN
    /\ Commit(Return(Fetched.m))

DoClass ==
    /\ status = "running"
    /\ Fetched.byte = OP_CLASS
    /\ Commit(Class(Fetched.m))

DoGetProperty ==
    /\ status = "running"
    /\ Fetched.byte = OP_GET_PROPERTY
    /\ Commit(GetProperty(Fetched.m))

DoSetProperty ==
    /\ status = "running"
    /\ Fetched.byte = OP_SET_PROPERTY
    /\ Commit(SetProperty(Fetched.m))

DoMethod ==
    /\ status = "running"
    /\ Fetched.byte = OP_METHOD
    /\ Commit(Method(Fetched.m))

DoArray ==
    /\ status = "running"
    /\ Fetched.byte = OP_ARRAY
    /\ Commit(Array(Fetched.m))

DoObject ==
    /\ status = "running"
    /\ Fetched.byte = OP_OBJECT
    /\ Commit(Object(Fetched.m))

DoGetIndex ==
    /\ status = "running"
    /\ Fetched.byte = OP_GET_INDEX
    /\ Commit(GetIndex(Fetched.m))

DoSetIndex ==
    /\ status = "running"
    /\ Fetched.byte = OP_SET_INDEX
    /\ Commit(SetIndex(Fetched.m))

DoPrint ==
    /\ status = "running"
    /\ Fetched.byte = OP_PRINT
    /\ Commit(PrintValue(Fetched.m))

\* the bytes the switch of execute() has no case for (and the read past the
\* end of the code, -1)
UnhandledBytes == {-1, 21, 22, 48, 49, 50, 56, 57} \cup 61..255

DoUnknownOpcode ==
    /\ status = "running"
    /\ Fetched.byte \in UnhandledBytes
    /\ Commit(UnknownOpcode(Fetched.m, Fetched.byte))

\* readByte(frame) with frame = currentFrame() undefined: no frame is left
DoNoFrame ==
    /\ status = "running"
    /\ Fetched.byte = -2
    /\ Commit(Fetched.m)

Next ==
    \/ Compile \/ Load \/ Run \/ RunAgain \/ RunConcurrently \/ Fallback \/ Resume
    \/ DoNoFrame
    \/ DoConstant \/ DoTrue \/ DoFalse \/ DoNull \/ DoLoadZero \/ DoLoadOne
    \/ DoPop \/ DoDup
    \/ DoAdd \/ DoSubtract \/ DoMultiply \/ DoDivide \/ DoModulo \/ DoPower \/ DoNegate
    \/ DoEqual \/ DoNotEqual \/ DoGreater \/ DoGreaterEqual \/ DoLess \/ DoLessEqual \/ DoNot
    \/ DoDefineGlobal \/ DoGetGlobal \/ DoSetGlobal
    \/ DoGetLocal \/ DoSetLocal \/ DoIncLocal
    \/ DoGetUpvalue \/ DoSetUpvalue \/ DoCloseUpvalue
    \/ DoJump \/ DoJumpIfFalse \/ DoJumpIfTrue \/ DoLoop
    \/ DoCall \/ DoClosure \/ DoReturn
    \/ DoClass \/ DoGetProperty \/ DoSetProperty \/ DoMethod
    \/ DoArray \/ DoObject \/ DoGetIndex \/ DoSetIndex
    \/ DoPrint \/ DoUnknownOpcode

Spec == Init /\ [][Next]_vars

(***************************************************************************)
(* Properties                                                              *)
(***************************************************************************)
\* the run is over: execute() returned, or threw
Halted == status \in {"done", "fault", "crash"}

\* C1: compiling and running the closure-counter program writes exactly 1
\* and then 2 to the output and ends without a runtime fault.
C1_ClosureCounterPrints12 ==
    (TheInput.name = "closure-counter" /\ Halted)
        => (status = "done" /\ output = << "1", "2" >>)

\* C2: compiling and running the class program (Box with initializer
\* sang(v) and method get()) writes exactly 7 to the output and ends
\* without a runtime fault.
C2_ClassProgramPrints7 ==
    (TheInput.name = "class-box" /\ Halted)
        => (status = "done" /\ output = << "7" >>)


(***************************************************************************)
(* The instruction about to execute                                        *)
(***************************************************************************)
\* execute() is about to dispatch the opcode op
At(op) == status = "running" /\ Fetched.byte = op

\* the k-th operand byte of the instruction about to execute
Operand(k) == FrameChunk(Machine).code[currentFrame(Machine).ip + 1 + k]

\* the object the step has allocated
Allocated == heap'[Len(heap')]

(***************************************************************************)
(* C3                                                                      *)
(***************************************************************************)
\* the value a handle stands for: its own once closed, its stack slot before
HandleValue(ups, st, u) ==
    IF ups[u].closed THEN ups[u].value ELSE StackRead(st, ups[u].location)

\* the table maps a slot to an open handle of that slot, and an open handle
\* is the table's entry for its slot: one open handle per slot at most
OpenTableConsistent ==
    /\ \A l \in DOMAIN openUpvalues :
          /\ openUpvalues[l] \in DOMAIN upvals
          /\ upvals[openUpvalues[l]].location = l
          /\ ~upvals[openUpvalues[l]].closed
    /\ \A u \in DOMAIN upvals :
          ~upvals[u].closed => /\ upvals[u].location \in DOMAIN openUpvalues
                               /\ openUpvalues[upvals[u].location] = u

\* a handle keeps its slot, is never reopened, takes the slot's value when it
\* is closed, and once closed changes only by a SET_UPVALUE through it
HandlesStable ==
    \A u \in DOMAIN upvals :
        /\ u \in DOMAIN upvals'
        /\ upvals'[u].location = upvals[u].location
        /\ upvals[u].closed => upvals'[u].closed
        /\ (~upvals[u].closed /\ upvals'[u].closed)
              => upvals'[u].value = StackRead(stack, upvals[u].location)
        /\ (upvals[u].closed /\ upvals'[u].value # upvals[u].value)
              => (At(OP_SET_UPVALUE) /\ u = FrameUpvalue(Machine, Operand(1)))

\* a slot's entry stays the same handle until that handle is closed
TableStable ==
    \A l \in DOMAIN openUpvalues :
        IF l \in DOMAIN openUpvalues' THEN openUpvalues'[l] = openUpvalues[l]
        ELSE upvals'[openUpvalues[l]].closed

\* CLOSURE gives the new Closure, for a local capture, the open handle of the
\* slot (the one already in the table when there is one) and otherwise the
\* handle of the running closure
CaptureShares ==
    (At(OP_CLOSURE) /\ status' = "running")
        => LET func == FrameChunk(Machine).constants[Operand(1) + 1].n
               base == currentFrame(Machine).slots
               mine == heap[currentFrame(Machine).closure].upvalues
           IN /\ Len(heap') = Len(heap) + 1
              /\ Allocated.type = "closure"
              /\ Len(Allocated.upvalues) = functions[func].upvalueCount
              /\ \A k \in 1..functions[func].upvalueCount :
                    LET index == Operand(2 * k + 1)
                    IN IF Operand(2 * k) = 1
                       THEN /\ Allocated.upvalues[k] = openUpvalues'[base + index]
                            /\ (base + index \in DOMAIN openUpvalues
                                   => Allocated.upvalues[k] = openUpvalues[base + index])
                       ELSE Allocated.upvalues[k] = mine[index + 1]

\* SET_UPVALUE makes the handle stand for the written value
WriteThrough ==
    (At(OP_SET_UPVALUE) /\ status' = "running")
        => HandleValue(upvals', stack', FrameUpvalue(Machine, Operand(1))) = peek(Machine, 0)

\* GET_UPVALUE pushes the value the handle stands for
ReadThrough ==
    (At(OP_GET_UPVALUE) /\ status' = "running")
        => /\ stackTop' = stackTop + 1
           /\ StackRead(stack', stackTop) =
                 HandleValue(upvals, stack, FrameUpvalue(Machine, Operand(1)))

\* what the upvalue-sharing input prints when closures that captured a slot
\* while its handle was open share the handle: inc and get of one call of
\* make see each other's writes (1 1, 10 10 with the local written by make,
\* 11 11 through via), also after make has returned (1 1 again, then 10 10
\* after a second call of make, whose closures have a handle of their own)
SharingOutput ==
    << "1", "1", "10", "10", "11", "11", "1", "1", "10", "10", "10", "5", "6", "5" >>

\* the closures of the heap
Closures == {c \in DOMAIN heap : heap[c].type = "closure"}

SharingDone == TheInput.name = "upvalue-sharing" /\ status = "done"

\* C3 as stated: any two Closures that captured the same stack slot of the
\* same live frame activation hold the same Upvalue handle.  g and h of the
\* upvalue-sharing input are made by two CLOSURE instructions of the one
\* activation of the script, both capturing its slot 1.
C3_SameSlotSameHandle ==
    (TheInput.name = "upvalue-sharing" /\ {"g", "h"} \subseteq DOMAIN globals)
        => LET g == heap[globals["g"].n].upvalues[1]
               h == heap[globals["h"].n].upvalues[1]
           IN upvals[g].location = upvals[h].location => g = h

\* C3, amended: the open-upvalue table holds at most one open handle per
\* stack slot; a CLOSURE that captures a slot whose handle is still open
\* gets that very handle (a slot closed by CLOSE_UPVALUE or RETURN and
\* captured again gets a new one); SET_UPVALUE writes and GET_UPVALUE reads
\* the value of the handle, which is the slot while the handle is open and
\* the handle's own value, taken from the slot, once it is closed.
C3_OpenHandleShared ==
    /\ [](OpenTableConsistent /\ (SharingDone => output = SharingOutput))
    /\ [][CaptureShares /\ WriteThrough /\ ReadThrough /\ HandlesStable /\ TableStable]_vars

\* two Closures of one call of make share a handle that has been closed, and
\* g and h have captured slot 1 of the script with a handle each
C3_SharedAfterReturn ==
    /\ SharingDone
    /\ output = SharingOutput
    /\ \E c1, c2 \in Closures :
          /\ c1 # c2
          /\ heap[c1].function # heap[c2].function
          /\ heap[c1].upvalues # << >>
          /\ heap[c1].upvalues = heap[c2].upvalues
          /\ upvals[heap[c1].upvalues[1]].closed
    /\ heap[globals["g"].n].upvalues # heap[globals["h"].n].upvalues

(***************************************************************************)
(* C4                                                                      *)
(***************************************************************************)
\* the arity of the function a Closure or a BoundMethod runs
CalleeArity(callee) ==
    IF callee.t = "closure" THEN functions[heap[callee.n].function].arity
    ELSE functions[heap[heap[callee.n].method.n].function].arity

\* CALL n is about to run on a Closure or BoundMethod of another arity
ArityMismatch ==
    /\ At(OP_CALL)
    /\ peek(Machine, Operand(1)).t \in {"closure", "bound_method"}
    /\ CalleeArity(peek(Machine, Operand(1))) # Operand(1)

ArityFault ==
    ArityMismatch
        => /\ status' = "fault"
           /\ output' = Append(output, "Runtime Error at line 0: Expected "
                                  \o ToString(CalleeArity(peek(Machine, Operand(1))))
                                  \o " arguments but got " \o ToString(Operand(1)) \o ".")
           /\ Len(frames') = Len(frames)
           /\ \A i \in DOMAIN frames : /\ frames'[i].closure = frames[i].closure
                                       /\ frames'[i].slots = frames[i].slots

\* the faulted run executes nothing more: a faulted state is left only by a
\* further call of run() or by the continuation of another activation
FaultedRunStops == status = "fault" => (Len(runs') > Len(runs) \/ loops # << >>)

\* C4: CALL n on a Closure or a BoundMethod whose function has an arity other
\* than n signals a runtime fault; no frame is pushed, and after the fault
\* the run executes no instruction.
C4_ArityMismatchFaults == [][ArityFault /\ FaultedRunStops]_vars

\* a method of arity 1 called with 2 arguments: the run has faulted in the
\* frame of the caller
C4_MethodCallFaulted ==
    /\ TheInput.name = "method-call"
    /\ status = "fault"
    /\ Len(frames) = 1
    /\ output = << "Runtime Error at line 0: Expected 1 arguments but got 2." >>


(***************************************************************************)
(* C5, C6                                                                  *)
(***************************************************************************)
MemberAssignInput ==
    TheInput.name \in {"member-assign-object", "member-assign-instance"}

\* C5: the code compiled for o.p = 5 reaches SET_PROPERTY with the object o
\* below the value 5; the run then sets p of o, ends normally and the
\* following da o.p writes 5.
C5_MemberAssignSetsField ==
    MemberAssignInput
        => /\ At(OP_SET_PROPERTY) => /\ peek(Machine, 1) = globals["o"]
                                     /\ peek(Machine, 0) = Num(5)
           /\ Halted => (status = "done" /\ output = << "5" >>)

IndexAssignInput ==
    TheInput.name \in {"index-assign-array", "index-assign-object"}

\* C6: the code compiled for o[i] = 9 reaches SET_INDEX with the Array or
\* Object o, then the index i, then the value 9 on top; the run then stores
\* 9 at i, ends normally and the following da o[i] writes 9.
C6_IndexAssignStores ==
    IndexAssignInput
        => /\ At(OP_SET_INDEX)
                 => /\ peek(Machine, 2).t \in {"array", "object"}
                    /\ peek(Machine, 1) = TheInput.program.body[2].expression.target.index.value
                    /\ peek(Machine, 0) = Num(9)
           /\ Halted => (status = "done" /\ output = << "9" >>)

(***************************************************************************)
(* C7, C8                                                                  *)
(***************************************************************************)
\* the n values on top of the stack, the first pushed first
TopValues(n) == [k \in 1..n |-> StackRead(stack, stackTop - n + k - 1)]

ArrayKeepsOrder ==
    (At(OP_ARRAY) /\ status' = "running")
        => /\ stackTop' = stackTop - Operand(1) + 1
           /\ StackRead(stack', stackTop' - 1) = Ref("array", Len(heap'))
           /\ Allocated.type = "array"
           /\ Len(Allocated.elements) = Operand(1)
           /\ \A k \in 1..Operand(1) : Allocated.elements[k] = TopValues(Operand(1))[k]

\* C7: ARRAY n pops the n values e1..en on top of the stack and pushes one
\* Array whose element k-1 is ek, the k-th pushed.
C7_ArrayPreservesOrder == [][ArrayKeepsOrder]_vars

NativeCallInOrder ==
    (At(OP_CALL) /\ peek(Machine, Operand(1)).t = "native")
        => LET n == Operand(1)
               called == invokeNative(Machine, heap[peek(Machine, n).n].name, TopValues(n))
           IN /\ status' = "suspended"
              /\ heap' = called.m.heap
              /\ stackTop' = stackTop - n - 1
              /\ loops' = Append(loops, [native |-> TRUE, push |-> TRUE, value |-> called.value])
              /\ Len(frames') = Len(frames)

\* C8: CALL n on a Native invokes it with the n arguments in the order they
\* were pushed, removes the callee and the arguments and pushes the returned
\* value: the stack is n slots shorter and no frame is pushed.
C8_NativeArgumentsInOrder == [][NativeCallInOrder]_vars

(***************************************************************************)
(* C9                                                                      *)
(***************************************************************************)
\* C9: K(1), with K a class whose initializer sang(v) takes one argument,
\* yields an Instance of K whatever the body of sang is: the value the
\* caller prints is an Instance of K and the run ends normally.
C9_InitializerYieldsInstance ==
    TheInput.name = "initializer"
        => /\ (At(OP_PRINT) /\ Len(frames) = 1)
                 => /\ peek(Machine, 0).t = "instance"
                    /\ heap[heap[peek(Machine, 0).n].klass].name = "K"
           /\ Halted => (status = "done" /\ output = << "<K kong>" >>)

(***************************************************************************)
(* C10                                                                     *)
(***************************************************************************)
ShortCircuitInput == TheInput.name \in {"&&", "||", "?:"}

\* the left operand of the logical expression, the condition of the ternary
LeftOperand ==
    IF TheInput.name = "?:" THEN TheInput.program.body[3].value.condition.value
    ELSE TheInput.program.body[2].value.left.value

\* truthiness of the language: null, tej (false), 0 and "" are falsy
Truthy(v) == v \notin {Nil, Bool(FALSE), Num(0), Str("")}

\* the operand decides for the right operand x = 5 (the consequent x = 5)
RightSelected ==
    IF TheInput.name = "||" THEN ~Truthy(LeftOperand) ELSE Truthy(LeftOperand)

\* x = 5 has executed; y = 7, the alternate of the ternary, has executed
RightExecuted == "x" \in DOMAIN globals /\ globals["x"] = Num(5)

AlternateExecuted == "y" \in DOMAIN globals /\ globals["y"] = Num(7)

\* the value of the whole expression
SelectedValue ==
    IF RightSelected THEN Num(5)
    ELSE IF TheInput.name = "?:" THEN Num(7)
    ELSE LeftOperand

\* the expression has been evaluated: its value is about to be bound to r
AtDefineOfR ==
    At(OP_DEFINE_GLOBAL) /\ FrameChunk(Machine).constants[Operand(1) + 1] = Str("r")

\* C10: in a && b the instructions of b run iff a is truthy, in a || b iff a
\* is falsy, a ternary runs exactly one of its branches; the expression
\* leaves exactly one value on the stack (above the closure of the script),
\* the left operand's when && or || short-circuits.
C10_ShortCircuit ==
    ShortCircuitInput
        => /\ status \notin {"fault", "crash"}
           /\ RightExecuted => RightSelected
           /\ AlternateExecuted => (TheInput.name = "?:" /\ ~RightSelected)
           /\ AtDefineOfR
                 => /\ stackTop = 2
                    /\ peek(Machine, 0) = SelectedValue
                    /\ RightExecuted <=> RightSelected
                    /\ TheInput.name = "?:" => (AlternateExecuted <=> ~RightSelected)
           /\ status = "done"
                 => /\ stackTop = 0
                    /\ globals["r"] = SelectedValue
                    /\ RightExecuted <=> RightSelected

\* 0 && (x = 5) has run to its end: r is the left operand 0 and x = 5 has not
\* executed
C10_AndShortCircuited ==
    /\ TheInput.name = "&&"
    /\ LeftOperand = Num(0)
    /\ status = "done"
    /\ globals["r"] = Num(0)
    /\ globals["x"] = Num(0)
    /\ output = << "0", "0" >>


(***************************************************************************)
(* C11                                                                     *)
(***************************************************************************)
\* the global name is about to be defined: the statement before ao name = ..
\* has completed
AtDefineOf(name) ==
    At(OP_DEFINE_GLOBAL) /\ FrameChunk(Machine).constants[Operand(1) + 1] = Str(name)

SwitchInput == TheInput.name = "switch"

TheSwitch == TheInput.program.body[Len(TheInput.program.body) - 1]

CaseNumbers == 1..Len(TheSwitch.cases)

\* the cases whose value equals the discriminant, and the first of them (0
\* when there is none)
Matches ==
    {k \in CaseNumbers : TheSwitch.cases[k].value.value.value = TheSwitch.discriminant.value}

FirstMatch == IF Matches = {} THEN 0 ELSE CHOOSE k \in Matches : \A j \in Matches : k <= j

Marked(name) == name \in DOMAIN globals /\ globals[name] # Nil

ValueEvaluated(k) == Marked(MarkerName("e", k))

BodyRan(k) == Marked(MarkerName("b", k))

DefaultRan == Marked("bd")

DefaultSelected == FirstMatch = 0 /\ TheSwitch.defaultCase # NoNode

\* C11: of a switch only the body of the first case whose value equals the
\* discriminant runs, no case value after it is evaluated, the default body
\* runs iff no case matched, and after the switch the stack is as deep as
\* before the discriminant was pushed (the closure of the script only).
C11_SwitchFirstMatchOnly ==
    SwitchInput
        => /\ status \notin {"fault", "crash"}
           /\ \A k \in CaseNumbers :
                 /\ BodyRan(k) => k = FirstMatch
                 /\ ValueEvaluated(k) => (FirstMatch = 0 \/ k <= FirstMatch)
           /\ DefaultRan => DefaultSelected
           /\ AtDefineOf("z")
                 => /\ stackTop = 2
                    /\ \A k \in CaseNumbers :
                          /\ BodyRan(k) <=> k = FirstMatch
                          /\ ValueEvaluated(k) <=> (FirstMatch = 0 \/ k <= FirstMatch)
                    /\ DefaultRan <=> DefaultSelected
           /\ status = "done" => stackTop = 0

\* a switch of two cases with the same value as the discriminant has run:
\* the first body ran, the second case was not even evaluated
C11_SecondMatchSkipped ==
    /\ SwitchInput
    /\ status = "done"
    /\ Len(TheSwitch.cases) = 2
    /\ Matches = {1, 2}
    /\ BodyRan(1) /\ ~BodyRan(2)
    /\ ValueEvaluated(1) /\ ~ValueEvaluated(2)
    /\ ~DefaultRan


(***************************************************************************)
(* C12                                                                     *)
(***************************************************************************)
\* the name operand of the global instruction about to execute
GlobalOperand == FrameChunk(Machine).constants[Operand(1) + 1].s

SetOfUndefinedFaults ==
    (At(OP_SET_GLOBAL) /\ GlobalOperand \notin DOMAIN globals)
        => (status' = "fault" /\ globals' = globals)

NamesOnlyByDefine ==
    DOMAIN globals' # DOMAIN globals
        => /\ At(OP_DEFINE_GLOBAL)
           /\ DOMAIN globals' = DOMAIN globals \cup {GlobalOperand}

\* C12: SET_GLOBAL of a name that is not defined signals a runtime fault and
\* leaves the globals unchanged; the globals hold the natives when the VM is
\* constructed and a name enters them only by DEFINE_GLOBAL.
C12_GlobalsOnlyByDefine ==
    /\ [](status = "new" => DOMAIN globals = NativeNames)
    /\ [][SetOfUndefinedFaults /\ NamesOnlyByDefine]_vars

\* y = 3 with y never declared has faulted: y is no global and x keeps the
\* value assigned before
C12_UndefinedSetFaulted ==
    /\ TheInput.name = "undefined-set"
    /\ status = "fault"
    /\ DOMAIN globals = NativeNames \cup {"x"}
    /\ globals["x"] = Num(2)
    /\ output = << "Runtime Error at line 0: Undefined variable 'y'" >>


(***************************************************************************)
(* C13                                                                     *)
(***************************************************************************)
\* the arithmetic instruction about to execute has an operand it is not
\* defined for
NonNumberOperand ==
    /\ status = "running"
    /\ \/ /\ Fetched.byte \in {OP_SUBTRACT, OP_MULTIPLY, OP_DIVIDE, OP_MODULO, OP_POWER}
          /\ (peek(Machine, 0).t # "num" \/ peek(Machine, 1).t # "num")
       \/ /\ Fetched.byte = OP_NEGATE
          /\ peek(Machine, 0).t # "num"
       \/ /\ Fetched.byte = OP_ADD
          /\ peek(Machine, 0).t # "str" /\ peek(Machine, 1).t # "str"
          /\ (peek(Machine, 0).t # "num" \/ peek(Machine, 1).t # "num")

\* C13: SUBTRACT, MULTIPLY, DIVIDE, MODULO, POWER and NEGATE on an operand
\* that is no Number, and ADD on operands that are neither both Numbers nor
\* one of them a String, signal a runtime fault and push no result.
C13_NonNumberOperandFaults ==
    [][NonNumberOperand => (status' = "fault" /\ stack' = stack)]_vars


(***************************************************************************)
(* C14                                                                     *)
(***************************************************************************)
DivisionFault == "Runtime Error at line 0: Division by zero"

\* DIVIDE with the divisor 0 faults: both operands are gone from the stack
\* and nothing is pushed
ZeroDivisorFaults ==
    (At(OP_DIVIDE) /\ peek(Machine, 0) = Num(0))
        => /\ status' = "fault"
           /\ stackTop' = stackTop - 2
           /\ output' = Append(output, DivisionFault)

\* C14: a division by a divisor that is 0 signals a runtime fault at DIVIDE
\* and pushes nothing, no instruction runs after the fault, and the programs
\* that print such a quotient (1 / 0 among them, which is compiled to a
\* DIVIDE) write no value: the output is the fault alone.
C14_DivisionByZeroFaults ==
    /\ []((TheInput.name = "division-by-zero" /\ Halted)
             => (status = "fault" /\ output = << DivisionFault >>))
    /\ [][ZeroDivisorFaults /\ FaultedRunStops]_vars

\* da 1 / 0 has faulted in the script with nothing printed
C14_LiteralDivisionFaulted ==
    /\ TheInput.name = "division-by-zero"
    /\ TheInput.program.body[1].type = "PrintStmt"
    /\ TheInput.program.body[1].expressions[1].right = Literal(Num(0))
    /\ TheInput.program.body[1].expressions[1].left = Literal(Num(1))
    /\ status = "fault"
    /\ output = << DivisionFault >>
    /\ stackTop = 1


(***************************************************************************)
(* C15                                                                     *)
(***************************************************************************)
\* C15: every byte the compiler emits is recorded with the source line of
\* the construct it was compiled from, and the message of a runtime fault
\* carries the line of the faulting node: in the fault-line program every
\* byte of the script comes from line 1 or line 3, and the division by zero
\* of line 3 is reported at line 3.
C15_FaultLineIsSourceLine ==
    TheInput.name = "fault-line"
        => /\ status # "new"
                 => \A i \in DOMAIN functions[1].chunk.lines :
                       functions[1].chunk.lines[i] \in {1, 3}
           /\ status = "fault"
                 => output = << "Runtime Error at line 3: Division by zero" >>


(***************************************************************************)
(* C16                                                                     *)
(***************************************************************************)
\* GET_INDEX or SET_INDEX is about to run on a target it is not defined for
BadIndexTarget ==
    \/ At(OP_GET_INDEX) /\ peek(Machine, 1).t \notin {"array", "object", "str"}
    \/ At(OP_SET_INDEX) /\ peek(Machine, 2).t \notin {"array", "object"}

\* C16: GET_INDEX on a target that is no Array, Object or String, and
\* SET_INDEX on a target that is no Array or Object, signal a runtime fault:
\* the run halts as faulted, with one formatted message written by the fault
\* hook.
C16_BadIndexTargetFaults ==
    [][BadIndexTarget => (status' = "fault" /\ Len(output') = Len(output) + 1)]_vars


(***************************************************************************)
(* C17                                                                     *)
(***************************************************************************)
\* instructions that push one value and pop none
PushOpcodes ==
    {OP_CONSTANT, OP_TRUE, OP_FALSE, OP_NULL, OP_LOAD_ZERO, OP_LOAD_ONE, OP_DUP, OP_GET_LOCAL}

\* a CALL of a Closure with the right argument count when the frame stack is
\* full, and a push when the value stack is full
FrameStackFull ==
    /\ At(OP_CALL)
    /\ Len(frames) = FRAMES_MAX
    /\ peek(Machine, Operand(1)).t = "closure"
    /\ CalleeArity(peek(Machine, Operand(1))) = Operand(1)

ValueStackFull == status = "running" /\ Fetched.byte \in PushOpcodes /\ stackTop = STACK_MAX

OverflowFaults ==
    (FrameStackFull \/ ValueStackFull)
        => /\ status' = "fault"
           /\ output' = Append(output, "Runtime Error at line 0: Stack overflow.")
           /\ Len(frames') = Len(frames)
           /\ stackTop' = stackTop

Unbounded == TheInput.name \in {"recursion", "push-loop"}

\* C17: the frame stack never holds more than 256 frames and the value
\* stack never more than 4096 slots; the CALL that would push frame 257 and
\* the push onto the full value stack signal the stack-overflow fault; a
\* recursion without end and a loop of pushes without end halt with that
\* fault.
C17_StacksBounded ==
    /\ [](Len(frames) <= FRAMES_MAX /\ stackTop <= STACK_MAX)
    /\ [][OverflowFaults]_vars
    /\ []((Unbounded /\ Halted) => status = "fault")
    /\ (Unbounded ~> status = "fault")

\* the recursion has faulted with a full frame stack
C17_RecursionOverflowed ==
    /\ TheInput.name = "recursion"
    /\ status = "fault"
    /\ Len(frames) = FRAMES_MAX
    /\ output = << "Runtime Error at line 0: Stack overflow." >>

\* The states with a next step: compile() or run() is to be called, the
\* loop of execute() is at an instruction, a continuation is queued, or the
\* host has a further run() to call.
Executing ==
    \/ status \in {"new", "compiled", "running"}
    \/ loops # << >>
    \/ Halted /\ HostPending
    \/ Halted /\ Len(runs) < MaxRuns /\ FreshFunctions # {}
    \/ FallsBack

\* The host goes on to compile and run the program, and the loop of execute()
\* goes on to its next instruction: weak fairness of Next.  The condition is
\* WF_vars(Next) written out by its definition, with Executing for
\* ENABLED <<Next>>_vars (the guards of the actions: in a running state the
\* case of the fetched opcode steps, DoUnknownOpcode for a byte that is no
\* opcode and DoNoFrame when no frame is left).
FairSpec == Spec /\ ([]<>(~Executing) \/ []<><<Next>>_vars)


(***************************************************************************)
(* C18                                                                     *)
(***************************************************************************)
\* the fresh run of a VM whose first run was halted by a runtime fault
FirstRunFaults == TheInput.name \in {"rerun-top", "rerun-nested", "rerun-overflow"}

FreshRunAfterFault == FirstRunFaults /\ Len(runs) = 2

\* the Function whose instruction execute() is about to fetch
FrameFunction == functions[heap[currentFrame(Machine).closure].function]

\* C18: after a run halted by a runtime fault, a fresh run(f) on the same
\* VM executes instructions of f only and returns the result of f (7, after
\* printing "fresh") to the host; no frame or stack slot of the faulted run
\* is resumed or read.
C18_FreshRunAfterFault ==
    /\ []((FirstRunFaults /\ Len(runs) = 1 /\ Halted) => status = "fault")
    /\ []((FreshRunAfterFault /\ status = "running")
             => FrameFunction.name = "<fresh>")
    /\ []((FreshRunAfterFault /\ Halted)
             => (status = "done" /\ result = Num(7)
                 /\ output[Len(output)] = "fresh"))

\* the promise of the fresh run is settled
C18_FreshRunSettled == FreshRunAfterFault /\ Halted


(***************************************************************************)
(* C19                                                                     *)
(***************************************************************************)
\* the step is a call of run() by the host while an activation of execute()
\* stands at an await
HostInterleaves == status = "suspended" /\ Len(runs') > Len(runs)

\* every activation at an await stands in the CALL of a Native
InNativeCalls == \A i \in 1..Len(loops) : loops[i].native

\* the oldest activation is inside callValue, at the await of native.fn, and
\* the step does not resume it
NativeStaysSuspended ==
    /\ loops # << >>
    /\ Head(loops).push
    /\ Len(loops') >= Len(loops)
    /\ SubSeq(loops', 1, Len(loops)) = loops

\* C19: the host gets control only inside the CALL of a Native, never at
\* the CALL of a Closure, Class or BoundMethod nor between two other
\* instructions; and while the call of a native is suspended the value
\* stack, the frame stack, the globals and the open-upvalue table stay as
\* they are until the result is pushed, also when the host starts another
\* run on the VM in the meantime.
C19_YieldOnlyInNativeCall ==
    /\ [][HostInterleaves => InNativeCalls]_vars
    /\ [][NativeStaysSuspended
            => UNCHANGED << stack, stackTop, frames, globals, openUpvalues >>]_vars

\* the host has started the second run while the first stands at an await
C19_SecondRunStarted == Len(runs) = 2 /\ runs[2] = "suspended"


(***************************************************************************)
(* C20                                                                     *)
(***************************************************************************)
\* the counted loop of the input and its bounds
ForInput == TheInput.name \in {"for-top", "for-function"}

TheFor ==
    IF TheInput.name = "for-top" THEN TheInput.program.body[1]
    ELSE TheInput.program.body[1].body.statements[1]

ForStart == TheFor.start.value.n

ForEnd == TheFor.end.value.n

\* start, start + 1, ..., end - 1 as the body prints them
RECURSIVE Counted(_, _)
Counted(from, to) ==
    IF from >= to THEN << >> ELSE << ToString(from) >> \o Counted(from + 1, to)

\* C20: for i = start to end { da i } runs its body max(0, end - start)
\* times with i = start, start + 1, ..., end - 1 in this order and then
\* ends, at top level as well as inside a function: the output never holds
\* anything but a prefix of these values, and the run ends normally with all
\* of them.
C20_CountedLoop ==
    ForInput =>
        /\ Len(output) <= Len(Counted(ForStart, ForEnd))
        /\ output = SubSeq(Counted(ForStart, ForEnd), 1, Len(output))
        /\ Halted => (status = "done" /\ output = Counted(ForStart, ForEnd))

\* a loop at top level that has to run its body has ended
C20_TopLevelLoopEnded ==
    /\ TheInput.name = "for-top"
    /\ ForStart < ForEnd
    /\ Halted


(***************************************************************************)
(* C21                                                                     *)
(***************************************************************************)
\* the statement under test of the input  ao x = 1; <statement>; da x
StatementInput == TheInput.name = "statement"

TheStatement == TheInput.program.body[2]

\* the code of the same program without the statement
CodeWithout(stmt) ==
    compile(Program(<< VarStmt("x", Literal(Num(1))), PrintStmt(<< Variable("x") >>) >>))
        .funcs[1].chunk.code

Compiled == status \notin {"new"}

\* C21: a statement of any kind is lowered to code or recorded as a compile
\* error, never dropped; the assignment statement x = 5 stores 5 in x, and
\* the body i = i + 1 of the loop  while i < 2  has changed i each time the
\* loop jumps back, so that the loop ends and 2 is printed.
C21_NoStatementDropped ==
    /\ (StatementInput /\ Compiled)
          => (hadError \/ functions[1].chunk.code # CodeWithout(TheStatement))
    /\ (StatementInput /\ TheStatement.type = "AssignStmt" /\ Halted)
          => (status = "done" /\ output = << "5" >>)
    /\ (TheInput.name = "assign-loop" /\ At(OP_LOOP)) => globals["i"] # Num(0)
    /\ (TheInput.name = "assign-loop" /\ Halted) => (status = "done" /\ output = << "2" >>)

\* the program with the assignment statement has run to its end
C21_AssignStatementRan ==
    StatementInput /\ TheStatement.type = "AssignStmt" /\ status = "done"


(***************************************************************************)
(* C22                                                                     *)
(***************************************************************************)
PassThroughInput == TheInput.name \in {"await", "spread"}

\* the expression with every await and spread replaced by its argument
RECURSIVE Unwrapped(_)
Unwrapped(expr) ==
    CASE expr.type \in {"AwaitExpr", "SpreadExpr"} -> Unwrapped(expr.argument)
      [] expr.type = "CallExpr" ->
            [expr EXCEPT !.args = [k \in DOMAIN expr.args |-> Unwrapped(expr.args[k])]]
      [] OTHER -> expr

\* the compilation of the program of the input without the wrappers
UnwrappedCompilation ==
    compile(Program(<< TheInput.program.body[1],
                       PrintStmt(<< Unwrapped(TheInput.program.body[2].expressions[1]) >>) >>))

\* C22: an await expression and a spread expression compile to exactly the
\* code of their argument, and no compile error is recorded.
C22_AwaitSpreadPassThrough ==
    (PassThroughInput /\ Compiled)
        => /\ ~hadError
           /\ status # "nofunc"
           /\ functions = UnwrappedCompilation.funcs

\* a program with an await expression has been compiled
C22_AwaitCompiled == TheInput.name = "await" /\ Compiled


(***************************************************************************)
(* C23                                                                     *)
(***************************************************************************)
\* compile() applied to the program of the input
Compilation == compile(TheInput.program)

\* the code compileStatement appends for one statement compiled alone: the
\* script's code without the NULL, RETURN of emitReturn
CodeOf(stmt) ==
    LET code == compile(Program(<< stmt >>)).funcs[1].chunk.code
    IN SubSeq(code, 1, Len(code) - 2)

RECURSIVE CodeOfAll(_)
CodeOfAll(stmts) ==
    IF stmts = << >> THEN << >> ELSE CodeOf(Head(stmts)) \o CodeOfAll(Tail(stmts))

\* the failing statements of a list
RECURSIVE Failing(_)
Failing(stmts) ==
    IF stmts = << >> THEN 0
    ELSE (IF Head(stmts) = SoundStatement THEN 0 ELSE 1) + Failing(Tail(stmts))

\* C23: compile returns no Function exactly when at least one compile error
\* was recorded, in the top-level code or in a nested function; an error
\* does not end the compilation: every sibling statement, before or after
\* it, is compiled to its code, and each failing one records its error.
C23_ErrorsCollected ==
    /\ (TheInput.program # NoNode /\ Compiled)
          => /\ hadError <=> Compilation.errors > 0
             /\ status = "nofunc" <=> Compilation.errors > 0
    /\ (TheInput.name = "errors" /\ Compiled)
          => /\ Compilation.errors = Failing(TheInput.program.body)
             /\ functions[1].chunk.code
                   = CodeOfAll(TheInput.program.body) \o << OP_NULL, OP_RETURN >>
    /\ (TheInput.name = "errors-nested" /\ Compiled)
          => /\ status = "nofunc"
             /\ Compilation.errors = 1
             /\ Len(functions) = 2

\* an error was recorded for the first statement and for the last one, with
\* a sound statement compiled between them
C23_TwoErrorsRecorded ==
    /\ TheInput.name = "errors"
    /\ status = "nofunc"
    /\ Compilation.errors = 2
    /\ TheInput.program.body[2] = SoundStatement


(***************************************************************************)
(* C24                                                                     *)
(***************************************************************************)
\* C24: a break or continue with no loop around it in the same function
\* body (at top level, after a loop has ended, in a function written
\* inside a loop) and a return at top level record a compile error, and
\* compile yields no Function; a break or continue inside a loop of the same
\* function body, and a return inside a function, record none.
C24_LoopExitsChecked ==
    /\ (TheInput.name = "control-unenclosed" /\ Compiled)
          => (hadError /\ status = "nofunc" /\ Compilation.errors >= 1)
    /\ (TheInput.name = "control-enclosed" /\ Compiled)
          => (~hadError /\ status # "nofunc" /\ Compilation.errors = 0)

\* a break in a function declared inside a loop has been refused
C24_BreakInNestedFunctionRefused ==
    /\ TheInput.name = "control-unenclosed"
    /\ TheInput.program.body[1].type = "WhileStmt"
    /\ TheInput.program.body[1].body.statements # << >>
    /\ TheInput.program.body[1].body.statements[1].type = "FunctionStmt"
    /\ TheInput.program.body[1].body.statements[1].body.statements = << BreakStmt >>
    /\ status = "nofunc"


(***************************************************************************)
(* C25                                                                     *)
(***************************************************************************)
\* C25: a name declared again at the same scope depth (not the global one)
\* of the same function, and a local read in its own initializer, record
\* one compile error; a name declared again in an inner scope, in a scope
\* beside the first, in another function or at global depth records none.
C25_DeclarationsChecked ==
    /\ (TheInput.name = "declare-again" /\ Compiled)
          => (hadError /\ status = "nofunc" /\ Compilation.errors = 1)
    /\ (TheInput.name = "declare-shadow" /\ Compiled)
          => (~hadError /\ status # "nofunc" /\ Compilation.errors = 0)

\* the block { ao x = 1; ao x = 2 } has been refused
C25_RedeclarationRefused ==
    /\ TheInput.name = "declare-again"
    /\ TheInput.program.body = << BlockStmt(<< Let("x", 1), Let("x", 2) >>) >>
    /\ status = "nofunc"


(***************************************************************************)
(* C26                                                                     *)
(***************************************************************************)
BlockInput == TheInput.name = "block"

TheBlock == TheInput.program.body[2]

\* the statement after the block is about to print its marker
AfterBlock ==
    /\ status = "running"
    /\ Fetched.byte = OP_PRINT
    /\ peek(Machine, 0) = Marker

\* the depth of the script's frame between two top-level statements: the
\* slot of the script's closure and nothing else
BetweenStatements == frames[Len(frames)].slots + 1

\* C26: whatever a block declares, once its scope-end instructions have run
\* the stack is as deep as it was when the block was entered: the statement
\* after the block starts at the depth the block started at, and the run
\* reaches that statement and ends normally.
C26_BlockLeavesDepth ==
    /\ (BlockInput /\ AfterBlock) => stackTop = BetweenStatements + 1
    /\ (BlockInput /\ Halted) => (status = "done" /\ output = << "9" >>)

\* the statement after a block holding a function declaration is reached
C26_FunctionBlockLeft ==
    /\ BlockInput
    /\ TheBlock = BlockStmt(<< FunctionStmt("g", << >>, Empty) >>)
    /\ AfterBlock


(***************************************************************************)
(* C27                                                                     *)
(***************************************************************************)
ObjectInput == TheInput.name = "object"

PairKeys == TheInput.keys

\* the pairs whose key did not occur in an earlier pair
FirstOccurrences == { i \in DOMAIN PairKeys : \A j \in 1..(i - 1) : PairKeys[j] # PairKeys[i] }

\* the number of the last pair with the key of pair i
LastOccurrence(i) ==
    CHOOSE j \in DOMAIN PairKeys :
        /\ PairKeys[j] = PairKeys[i]
        /\ \A l \in (j + 1)..Len(PairKeys) : PairKeys[l] # PairKeys[i]

\* the p-th of the first occurrences
Occurrence(p) ==
    CHOOSE i \in FirstOccurrences : Cardinality({ j \in FirstOccurrences : j < i }) = p - 1

\* keys in the order of their first occurrence, each with the value of its
\* last occurrence
Literally ==
    [p \in 1..Cardinality(FirstOccurrences) |->
        [key |-> ObjectKeys[PairKeys[Occurrence(p)]], value |-> Num(LastOccurrence(Occurrence(p)))]]

WrittenKey == ObjectKeys[TheInput.write.key]

\* the literal's properties with the value of the written key replaced
Rewritten ==
    [p \in DOMAIN Literally |->
        IF Literally[p].key = WrittenKey THEN [key |-> WrittenKey, value |-> Replacement]
        ELSE Literally[p]]

Objects == { i \in DOMAIN heap : heap[i].type = "object" }

\* OBJECT has run and the next instruction has not
ObjectBuilt ==
    /\ status = "running"
    /\ Cardinality(Objects) = 1
    /\ frames[Len(frames)].ip = 1 + Len(PushPairs(PairKeys, 1)) + 2

WritesExisting ==
    /\ TheInput.write.op # "none"
    /\ \E i \in DOMAIN PairKeys : PairKeys[i] = TheInput.write.key

\* C27: OBJECT n takes n pairs off the stack and puts one Object on it,
\* whose keys are in the order of their first occurrence with the value of
\* their last occurrence; SET_PROPERTY and SET_INDEX on a key the object has
\* replace the value and leave the order.
C27_ObjectKeepsKeyOrder ==
    /\ (ObjectInput /\ ObjectBuilt)
          => /\ stackTop = 3
             /\ stack[2] = Bool(TRUE)
             /\ stack[3] = Ref("object", Len(heap))
             /\ heap[Len(heap)].properties = Literally
    /\ (ObjectInput /\ Halted)
          => /\ status = "done"
             /\ Cardinality(Objects) = 1
             /\ WritesExisting => heap[Len(heap)].properties = Rewritten
             /\ TheInput.write.op = "none" => heap[Len(heap)].properties = Literally

\* { a: 1, b: 2, a: 3 } was built and its key a written through SET_INDEX
C27_RepeatedKeyWritten ==
    /\ ObjectInput
    /\ PairKeys = << 1, 2, 1 >>
    /\ TheInput.write = [op |-> "index", key |-> 1]
    /\ status = "done"
    /\ heap[Len(heap)].properties =
          << [key |-> Str("a"), value |-> Replacement], [key |-> Str("b"), value |-> Num(2)] >>


(***************************************************************************)
(* C28                                                                     *)
(***************************************************************************)
EqualInput == TheInput.name = "equal"

\* the three comparisons have run and nothing has been popped
Compared ==
    /\ status = "running"
    /\ frames[Len(frames)].ip =
          Len(Producers[TheInput.left]) + Len(Producers[TheInput.right]) + Len(Comparisons)

\* C28: for all values a and b the machine can hold, EQUAL of a with b gives
\* what EQUAL of b with a gives, and EQUAL of a with itself gives true.
C28_EqualReflexiveSymmetric ==
    (EqualInput /\ Compared)
       => /\ stackTop = 6
          /\ stack[4] = stack[5]
          /\ stack[6] = Bool(TRUE)

\* 1 % 0 has been compared with itself
C28_RemainderByZeroCompared ==
    /\ EqualInput
    /\ Compared
    /\ stack[2] = NaN
    /\ stack[6] \in {Bool(TRUE), Bool(FALSE)}


(***************************************************************************)
(* C29                                                                     *)
(***************************************************************************)
InheritInput == TheInput.name = "inherit"

\* a BoundMethod of describe whose receiver is an instance of the class
BoundDescribe(class) ==
    \E i \in DOMAIN heap :
        /\ heap[i].type = "bound_method"
        /\ heap[heap[i].receiver.n].type = "instance"
        /\ heap[heap[heap[i].receiver.n].klass].name = class
        /\ functions[heap[heap[i].method.n].function].name = "describe"

\* C29: with Circle declared as a subclass of Shape, describe (defined on
\* Shape only) read from an instance of Circle gives a BoundMethod and no
\* fault, as it does when read from an instance of Shape.
C29_SuperclassMethodFound ==
    (InheritInput /\ Halted) => (status = "done" /\ BoundDescribe(TheInput.instance))

\* describe was read from an instance of Circle, in the code with the
\* closure of describe in its place
C29_SubclassInstanceAsked ==
    /\ InheritInput
    /\ TheInput.program = NoNode
    /\ TheInput.instance = "Circle"
    /\ status = "fault"
    /\ output = << "Runtime Error at line 0: Undefined property 'describe'." >>


(***************************************************************************)
(* C30                                                                     *)
(***************************************************************************)
NestedInput == TheInput.name = "nested"

\* the functions of the compilation but the script
NestedFunctions == 2..Len(functions)

CodeOfFunction(f) == functions[f].chunk.code

\* the chunk of g holds CLOSURE with the constant of f and room for the
\* byte pair of every upvalue of f
Declares(g, f) ==
    \E p \in 1..(Len(CodeOfFunction(g)) - 1) :
        /\ CodeOfFunction(g)[p] = OP_CLOSURE
        /\ CodeOfFunction(g)[p + 1] < Len(functions[g].chunk.constants)
        /\ functions[g].chunk.constants[CodeOfFunction(g)[p + 1] + 1] = FunctionVal(f)
        /\ Len(CodeOfFunction(g)) >= p + 1 + 2 * functions[f].upvalueCount

\* C30: the CLOSURE instruction of a nested function, its function constant
\* and its upvalue pairs are in the chunk of an enclosing function, the
\* nested function's own chunk ends with its RETURN, and running the script
\* creates one closure for the one declaration it runs.
C30_ClosureInEnclosingChunk ==
    /\ (NestedInput /\ Compiled)
          => \A f \in NestedFunctions :
                /\ CodeOfFunction(f)[Len(CodeOfFunction(f))] = OP_RETURN
                /\ FunctionVal(f) \notin { functions[f].chunk.constants[k] :
                                             k \in DOMAIN functions[f].chunk.constants }
                /\ \E g \in 1..(f - 1) : Declares(g, f)
    /\ (NestedInput /\ Halted)
          => (status = "done" /\ Cardinality(Closures) = 2)

\* kian f() { } has been compiled and run
C30_DeclarationRan ==
    /\ NestedInput
    /\ TheInput.program.body = << FunctionStmt("f", << >>, Empty) >>
    /\ Halted
    /\ functions[2].name = "f"


(***************************************************************************)
(* C31                                                                     *)
(***************************************************************************)
UpvalueInput == TheInput.name = "upvalue"

\* the function that uses n is the last one compiled; the functions below
\* outer (the second of the table) are the third to the last
UsingFunction == Len(functions)

\* the opcode of the access to n: the first instruction of kuun n, the
\* second of n = 1
AccessOpcode ==
    CodeOfFunction(UsingFunction)[IF TheInput.write THEN 2 ELSE 1]

\* C31: n, a local of outer used one, two or more function levels below, is
\* compiled to GET_UPVALUE or SET_UPVALUE, never to a global access, and
\* every function between outer and the use has an upvalue for it.
C31_EnclosingLocalIsUpvalue ==
    (UpvalueInput /\ Compiled)
       => /\ ~hadError
          /\ Len(functions) = TheInput.distance + 2
          /\ AccessOpcode = (IF TheInput.write THEN OP_SET_UPVALUE ELSE OP_GET_UPVALUE)
          /\ \A f \in 3..Len(functions) : functions[f].upvalueCount = 1

\* n read two function levels below outer has been compiled
C31_TwoLevelsCompiled ==
    /\ UpvalueInput
    /\ TheInput.distance = 2
    /\ ~TheInput.write
    /\ status = "compiled"
    /\ AccessOpcode \in {OP_GET_UPVALUE, OP_GET_GLOBAL}


(***************************************************************************)
(* C32                                                                     *)
(***************************************************************************)
ClosedHandles == { u \in DOMAIN upvals : upvals[u].closed }

TableHandles == { openUpvalues[l] : l \in DOMAIN openUpvalues }

\* the step closes the handle u
Closes(u) == ~upvals[u].closed /\ upvals'[u].closed

\* the step is SET_UPVALUE through the handle u
WritesThrough(u) == At(OP_SET_UPVALUE) /\ u = FrameUpvalue(Machine, Operand(1))

\* C32: a closed handle is not in the open-upvalue table and stays closed
\* in every later state; the step that closes a handle gives it the value
\* of its stack slot; the value of a closed handle changes only in a
\* SET_UPVALUE through that handle, whatever is written to the stack.
C32_ClosedHandleOwnsValue ==
    /\ [](ClosedHandles \cap TableHandles = {})
    /\ [][\A u \in DOMAIN upvals :
            /\ u \in DOMAIN upvals'
            /\ u \in ClosedHandles => upvals'[u].closed
            /\ Closes(u) => upvals'[u].value = StackRead(stack, upvals[u].location)
            /\ (u \in ClosedHandles /\ upvals'[u].value # upvals[u].value) => WritesThrough(u)]_vars

\* a handle is closed and its former stack slot, in use again, holds
\* another value
C32_FormerSlotRewritten ==
    \E u \in ClosedHandles :
        /\ upvals[u].location < stackTop
        /\ StackRead(stack, upvals[u].location) # upvals[u].value
        /\ status = "running"


(***************************************************************************)
(* C33                                                                     *)
(***************************************************************************)
ReturningBase == currentFrame(Machine).slots

\* RETURN in a frame above another: the frame is gone, the result is in the
\* callee's slot with nothing above it, no open handle is left for a slot
\* of the frame, and the run goes on in the frame below
ReturnsToCaller ==
    /\ status' = "running"
    /\ frames' = SubSeq(frames, 1, Len(frames) - 1)
    /\ stackTop' = ReturningBase + 1
    /\ StackRead(stack', ReturningBase) = peek(Machine, 0)
    /\ \A l \in DOMAIN openUpvalues' : l < ReturningBase

\* RETURN in the only frame: the result and the callee's slot are taken off
\* the stack and the result is what run() returns
ReturnsToHost ==
    /\ status' = "done"
    /\ frames' = << >>
    /\ result' = peek(Machine, 0)
    /\ stackTop' = stackTop - 2
    /\ \A l \in DOMAIN openUpvalues' : l < ReturningBase

\* C33: a RETURN that executes in a frame that is not the only one leaves
\* the frame stack one shorter, stackTop at the frame's base + 1, the result
\* in the slot at the base and no open handle at or above the base; in the
\* only frame it discards the callee's slot and gives the result to the host.
C33_ReturnRestoresCaller ==
    [][At(OP_RETURN) => IF Len(frames) > 1 THEN ReturnsToCaller ELSE ReturnsToHost]_vars

\* the script of kian f() { } is about to execute its RETURN with the result
\* as the only value of the stack
C33_ScriptReturnsWithoutCallee ==
    /\ NestedInput
    /\ At(OP_RETURN)
    /\ Len(frames) = 1
    /\ stackTop = 1
    /\ peek(Machine, 0) = Nil


(***************************************************************************)
(* C34                                                                     *)
(***************************************************************************)
LocalsInput == TheInput.name = "locals"

\* C34: a local read through GET_LOCAL, and read after a write through
\* SET_LOCAL, is the variable of that name: the locals of a function, of a
\* method and of a block in top-level code print the values they were given.
C34_LocalSlotsAgree ==
    (LocalsInput /\ Halted) => (status = "done" /\ output = TheInput.prints)

\* the block { ao a = 5; da a } of top-level code has run
C34_TopLevelBlockRan ==
    /\ LocalsInput
    /\ TheInput.program.body = << BlockStmt(<< Let("a", 5), Show("a") >>) >>
    /\ status = "done"
    /\ Len(output) = 1


(***************************************************************************)
(* C35                                                                     *)
(***************************************************************************)
LoopExitInput == TheInput.name = "loop-exit"

TheLoopBody == TheInput.program.body[2].body.statements

\* C35: a loop left through break, or re-tested through continue until its
\* test fails, leaves the stack as deep as a loop whose iterations ended
\* normally: the statement after the loop starts at the depth the loop
\* started at, whatever locals the body declared before the break or
\* continue, and the run ends normally.
C35_LoopExitsKeepDepth ==
    /\ (LoopExitInput /\ AfterBlock) => stackTop = BetweenStatements + 1
    /\ (LoopExitInput /\ Halted) => (status = "done" /\ output = << "9" >>)

\* the loop whose body declares a local and then breaks has been left
C35_BreakAfterLocal ==
    /\ LoopExitInput
    /\ TheLoopBody = << Advance, Let("a", 1), BreakStmt >>
    /\ AfterBlock


(***************************************************************************)
(* C36                                                                     *)
(***************************************************************************)
ForContinues == TheInput.name = "for-continue"

\* the step of the loop: 1 when none is written
StepOf == IF ForSteps[TheInput.step] = NoNode THEN 1 ELSE ForSteps[TheInput.step].value.n

\* the iterations of for i = 0 to end step s: the i below end
Iterations == Cardinality({ i \in 0..(TheInput.end - 1) : i % StepOf = 0 })

\* C36: continue in the body of a counted loop advances the loop variable
\* by the step before the next test: the body of for i = 0 to end step s is
\* entered once for each i = 0, s, 2s, ... below end, the loop ends and the
\* function returns normally.
C36_ContinueAdvances ==
    (ForContinues /\ Halted) => (status = "done" /\ globals["n"] = Num(Iterations))

\* the loop to 2 whose body always continues has been run
C36_ContinuingLoopRan ==
    /\ ForContinues
    /\ TheInput.end = 2
    /\ TheInput.step = 1
    /\ TheInput.program.body[1].body.statements[1].body.statements = ContinuingBodies[2]
    /\ Halted


(***************************************************************************)
(* C37                                                                     *)
(***************************************************************************)
PoolInput == TheInput.name = "pool"

ThePool == functions[1].chunk.constants

\* the values the expressions of the program load through CONSTANT: the
\* value of a literal and the literal a folded expression is replaced by
LoadedConstants ==
    { IF e.type = "Literal" THEN e.value ELSE foldResult(e.operator, e.left.value, e.right.value) :
        e \in { TheInput.program.body[k].expression : k \in 2..Len(TheInput.program.body) }
              \ { Variable("a") } }

\* C37: no two slots of the pool hold values equal by the machine's
\* equality; inserting a value equal to the value of a slot gives that
\* slot's index and leaves the pool as it is; and each Number or String
\* the code loads through CONSTANT, however often, has exactly one slot.
C37_PoolHoldsEachValueOnce ==
    (PoolInput /\ Compiled)
       => /\ \A i, j \in DOMAIN ThePool : valuesEqual(ThePool[i], ThePool[j]) => i = j
          /\ \A i \in DOMAIN ThePool :
                \A v \in LoadedConstants \cup {Str("a")} :
                    valuesEqual(ThePool[i], v)
                       => addConstant(functions[1].chunk, v)
                             = [chunk |-> functions[1].chunk, index |-> i - 1]
          /\ \A v \in LoadedConstants :
                Cardinality({ i \in DOMAIN ThePool : ThePool[i] = v }) = 1

\* 1 % 0 has been compiled twice in one program
C37_FoldedRemainderTwice ==
    /\ PoolInput
    /\ Compiled
    /\ TheInput.program.body[2] = ExprStmt(PoolExpressions[5])
    /\ TheInput.program.body[3] = ExprStmt(PoolExpressions[5])
    /\ TheInput.program.body[4] = ExprStmt(PoolExpressions[1])


(***************************************************************************)
(* C38                                                                     *)
(***************************************************************************)
FoldedInput == TheInput.name = "fold"

TheExpression == TheInput.expr

DividesByZero == TheExpression.operator = "/" /\ TheExpression.right.value = Num(0)

\* the code compileBinaryExpr emits for the expression, and the unfolded code
FoldedCode == currentChunk(compileBinaryExpr(NewCompiler, TheExpression)).code

UnfoldedCode == currentChunk(unfolded(NewCompiler, TheExpression)).code

\* both codes have run and the trailing NULL, RETURN have not
BothPushed ==
    /\ status = "running"
    /\ frames[Len(frames)].ip = Len(FrameChunk(Machine).code) - 2

\* C38: for every folded operator and every pair of literals 0..MaxLiteral
\* the one instruction the compiler emits in place of the expression pushes
\* the value the unfolded code (left literal, right literal, operator
\* instruction) pushes; a division by the literal 0 is not folded.
C38_FoldingKeepsValue ==
    /\ (FoldedInput /\ Compiled)
          => IF DividesByZero THEN FoldedCode = UnfoldedCode
             ELSE Len(FoldedCode) <= 2 /\ FoldedCode # UnfoldedCode
    /\ (FoldedInput /\ BothPushed)
          => (stackTop = 3 /\ stack[2] = stack[3] /\ ~DividesByZero)
    /\ (FoldedInput /\ Halted)
          => (IF DividesByZero THEN status = "fault" ELSE status = "done")

\* 3 - 1, folded and unfolded, has pushed 2 twice
C38_DifferenceFolded ==
    /\ FoldedInput
    /\ TheExpression = BinaryExpr(Literal(Num(3)), "-", Literal(Num(1)))
    /\ BothPushed
    /\ stack[2] = Num(2)
    /\ stack[3] = Num(2)


(***************************************************************************)
(* C39                                                                     *)
(***************************************************************************)
JumpingInput == TheInput.name = "jump"

\* the operand the jump and the loop of the input ask for
JumpDistance == TheInput.end - TheInput.operand - 2

LoopDistance == TheInput.end + 3 - TheInput.loopStart

JumpTaken ==
    \/ At(OP_JUMP)
    \/ At(OP_JUMP_IF_FALSE) /\ ~isTruthy(peek(Machine, 0))
    \/ At(OP_JUMP_IF_TRUE) /\ isTruthy(peek(Machine, 0))

\* C39: a forward jump written by emitJump and patched by patchJump, when
\* it is taken, sets ip to the length the code had when it was patched, and
\* the LOOP written by emitLoop(loopStart) sets ip to loopStart, for every
\* operand up to 0xFFFF; a larger operand records a compile error.
C39_JumpsLandWherePatched ==
    /\ [](JumpingInput =>
            TheInput.errors = (IF JumpDistance > 65535 THEN 1 ELSE 0)
                              + (IF LoopDistance > 65535 THEN 1 ELSE 0))
    /\ [][(JumpingInput /\ JumpTaken /\ JumpDistance <= 65535)
              => frames'[Len(frames)].ip = TheInput.end]_vars
    /\ [][(JumpingInput /\ At(OP_LOOP) /\ LoopDistance <= 65535)
              => frames'[Len(frames)].ip = TheInput.loopStart]_vars

\* the loop with the operand 0x0103 has gone back over the jump with the
\* operand 0x0100
C39_TwoByteLoopTaken ==
    /\ JumpingInput
    /\ JumpDistance = 256
    /\ LoopDistance = 259
    /\ TheInput.errors = 0
    /\ status = "running"
    /\ frames[Len(frames)].ip = TheInput.loopStart


(***************************************************************************)
(* C40                                                                     *)
(***************************************************************************)
FileRun == TheInput.name = "file"

\* the places of the console where the line of the k-th print stands
Printed(k) == {i \in DOMAIN output : output[i] = NumberToString(Num(k))}

\* C40: when a file is run in VM mode each print of the program is written
\* at most once, also when the run of the VM ends in a fault after the line
\* was written and the host handles the fault.
C40_PrintedAtMostOnce ==
    FileRun => \A k \in 1..TheInput.prints : Cardinality(Printed(k)) <= 1

\* da 1; da 1 / 0: the VM has written 1 and faulted, and the interpreter has
\* written 1 again
C40_PrintedByBothEngines ==
    /\ FileRun
    /\ TheInput.prints = 1
    /\ TheInput.ending = 2
    /\ status = "fault"
    /\ output = << "1", "Runtime Error at line 0: Division by zero",
                   "1", ROAST_MESSAGES.divideByZero, "Runtime Error: Division by zero" >>

====
